---- MODULE Spec2Model ----
(***************************************************************************)
(* Model of the eternal-math number-theory suite: the arithmetic           *)
(* primitives and the Set class of eternal_math/core.py, the algorithms    *)
(* of eternal_math/number_theory.py, the proof objects the theorem         *)
(* factory builds, time_function of eternal_math/benchmarks.py, and the    *)
(* command loop and handlers of eternal_math/cli.py.  Each pure            *)
(* function is an operator computed the way the code computes it; a call   *)
(* is an action that takes the arguments from a bounded set and records    *)
(* the outcome; code that runs in steps has one action per step.           *)
(***************************************************************************)
EXTENDS Integers, Sequences, FiniteSets, TLC

VARIABLES
    pc,        \* position of the running call: "idle", a loop label, "done"
    fn,        \* name of the function called
    args,      \* its arguments, a tuple of Python values
    ret,       \* its outcome: a returned value or a raised exception
    calls,     \* the functions the call has called in turn
    n,         \* collatz_sequence: the local n
    sequence,  \* collatz_sequence: the local sequence
    result,    \* euler_totient: the local result
    factors,   \* euler_totient: the factors the loop has still to visit
    gb_primes, \* verify_goldbach_conjecture: the set primes
    order,     \* the order in which iterating primes has yielded its elements
    pos,       \* how many elements the running "for p in primes" has taken
    stage,     \* the theorem object: "none", "factory", "returned", "free"
    fpc,       \* create_fundamental_theorem_of_arithmetic: the next statement
    proven,    \* theorem.proven
    attached,  \* theorem.proof is set
    axioms,    \* proof.axioms
    steps,     \* proof.steps
    removed,   \* the position of the step taken out of proof.steps, or 0
    running,   \* EternalMathCLI.running
    cpc,       \* EternalMathCLI.run: "constructed", "while", "input",
               \* "dispatch", "returned"
    stdin,     \* what the terminal holds for the coming input() calls
    consumed,  \* what the input() calls have taken so far
    parts,     \* run: the local parts
    handled,   \* the commands whose handler run has called
    last,      \* how the latest round of the loop of run ended
    results,   \* PerformanceBenchmark.results
    bpc,       \* time_function: "idle", "loop", "returned", "raised"
    timed,     \* time_function: func, args, kwargs and iterations
    times,     \* time_function: the local times
    invoked,   \* how often the running time_function has called func
    log,       \* the calls of time_function that have returned, in order
    given,     \* the lists the Sets A and B were built from
    setA,      \* A.elements
    setB,      \* B.elements
    spc,       \* the Sets: "none", "built", "done"
    sop,       \* the method called on A and the kind of its argument
    made,      \* what the method returned or raised
    hpc,       \* a command handler: "idle", "done"
    hname,     \* the handler that was called
    hargs,     \* its args: the words after the command
    reached,   \* the functions the handler has called, with their arguments
    printed    \* the kind of message the handler has printed

\* The locals of verify_goldbach_conjecture besides n.
goldbach == <<gb_primes, order, pos>>

\* The theorem and its proof.
proofvars == <<stage, fpc, proven, attached, axioms, steps, removed>>

\* The command-line session.
clivars == <<running, cpc, stdin, consumed, parts, handled, last>>

\* The benchmark object and its running time_function.
benchvars == <<results, bpc, timed, times, invoked, log>>

\* Two Set objects and the latest method call on them.
setvars == <<given, setA, setB, spc, sop, made>>

\* A call of a command handler.
handlervars == <<hpc, hname, hargs, reached, printed>>

\* The objects of the benchmark, the Set class and the command handlers.
tools == <<benchvars, setvars, handlervars>>

\* The objects that outlive a call.
objects == <<proofvars, clivars, tools>>

\* The variables that the calls of the other functions leave alone.
rest == <<goldbach, objects>>

\* The locals of the number-theory calls.
scratch == <<n, sequence, result, factors, goldbach>>

vars == <<pc, fn, args, ret, calls, n, sequence, result, factors, rest>>

\* The locals of the step-wise loops.
locals == <<n, sequence, result, factors, rest>>

(***************************************************************************)
(* Bounds of the model.                                                    *)
(***************************************************************************)
\* sieve limits -2 .. MaxLimit
MaxLimit == 100
\* number of limits past the one that fills the first segment window exactly
LargeSpan == 8
\* gcd and lcm arguments -MaxArg .. MaxArg
MaxArg == 12
\* is_prime, prime_factorization and euler_totient arguments -3 .. MaxN
MaxN == 100
\* is_perfect_number arguments -2 .. MaxPerfect
MaxPerfect == 500
\* find_perfect_numbers limits -1 .. MaxScan
MaxScan == 30
\* collatz_sequence starting values -2 .. MaxStart
MaxStart == 30
\* fibonacci_sequence counts -2 .. MaxCount
MaxCount == 12

\* The longest list collatz_sequence may build: the loop is followed as long
\* as the list is shorter (the longest below MaxStart, from 27, has 112
\* elements).
MaxSequence == 120
\* twin_primes limits -2 .. MaxTwin
MaxTwin == 45
\* verify_goldbach_conjecture limits -2 .. MaxGoldbach
MaxGoldbach == 40
\* chinese_remainder_theorem: lists of at most MaxLen elements
MaxLen == 3
\* chinese_remainder_theorem: moduli -3 and 0 .. MaxModulus
MaxModulus == 5
\* a proof built by its caller: at most MaxAxioms axioms
MaxAxioms == 1
\* a proof built by its caller: at most MaxSteps steps
MaxSteps == 2
\* a proof built by its caller: at most MaxPremises premises to a step
MaxPremises == 1
\* a command-line session: at most MaxLines lines or signals typed
MaxLines == 3
\* time_function: iterations -1 .. MaxIterations
MaxIterations == 2
\* time_function: calls that return, at most
MaxResults == 2
\* Set: lists of at most MaxList elements out of 1 .. MaxElement
MaxList == 2
MaxElement == 2
\* handlers: words of at most MaxToken characters
MaxToken == 2
\* plotcollatz: at most MaxWords words
MaxWords == 3

(***************************************************************************)
(* Program constants.                                                      *)
(***************************************************************************)
SegmentThreshold == 1000000
MinSegmentSize == 32768

(***************************************************************************)
(* Python values and outcomes.                                             *)
(***************************************************************************)
\* A Python int argument.
PyInt(v) == [t |-> "int", v |-> v]

\* No call has returned or raised yet.
NoOutcome == [kind |-> "none", val |-> 0]

\* The outcome of a call: a returned value or a raised exception.
Return(v) == [kind |-> "return", val |-> v]
Raise(e) == [kind |-> e, val |-> 0]

\* max(a, b) and min(a, b)
Max(a, b) == IF a >= b THEN a ELSE b
Min(a, b) == IF a <= b THEN a ELSE b

\* list(range(start, stop))
PyRange(start, stop) == [k \in 1..(stop - start) |-> start + k - 1]

\* m in range(start, stop, step), step > 0
InRange(m, start, stop, step) ==
    m >= start /\ m < stop /\ (m - start) % step = 0

\* A Python list is a sequence: list[j] of the code is list[j + 1] here.
\* Stored(list) is the list after an in-place update; appending nothing makes
\* the evaluator build the updated list at once instead of keeping a chain of
\* pending updates.
Stored(list) == list \o <<>>

\* list[j]
At(list, j) == list[j + 1]

\* int(x ** 0.5) and int(math.sqrt(x)) for x >= 0: the float square root is
\* exact to the integer part for every x the model reaches (x < 2^52).
IntSqrt(x) == CHOOSE r \in 0..x : r * r <= x /\ (r + 1) * (r + 1) > x

(***************************************************************************)
(* sieve_of_eratosthenes and _segmented_sieve (number_theory.py).          *)
(***************************************************************************)
\* Variant of MarkMultiples whose range stops at limit instead of limit + 1.
MarkMultiplesExclusive(sieve, i, limit) ==
    Stored([k \in 1..Len(sieve) |->
        sieve[k] /\ ~InRange(k - 1, i * i, limit, i)])

\* for j in range(i * i, limit + 1, i): sieve[j] = False
MarkMultiples(sieve, i, limit) ==
    Stored([k \in 1..Len(sieve) |->
        sieve[k] /\ ~InRange(k - 1, i * i, limit + 1, i)])

\* for i in range(i, stop): if sieve[i]: <mark the multiples of i>
RECURSIVE SieveLoop(_, _, _, _)
SieveLoop(sieve, i, stop, limit) ==
    IF i >= stop THEN sieve
    ELSE IF At(sieve, i)
         THEN SieveLoop(MarkMultiples(sieve, i, limit), i + 1, stop, limit)
         ELSE SieveLoop(sieve, i + 1, stop, limit)

\* The boolean-array sieve over 0..limit, limit >= 2:
\* sieve = [True] * (limit + 1); sieve[0] = sieve[1] = False; the marking
\* loop; [i for i in range(2, limit + 1) if sieve[i]]
StandardSieve(limit) ==
    LET sieve0 == Stored([k \in 1..(limit + 1) |-> k - 1 >= 2])
        sieve == SieveLoop(sieve0, 2, IntSqrt(limit) + 1, limit)
        IsSet(i) == At(sieve, i)
    IN  SelectSeq(PyRange(2, limit + 1), IsSet)

\* Base primes up to sqrt_limit of the segmented sieve.
BasePrimes(sqrt_limit) ==
    IF sqrt_limit >= 2 THEN StandardSieve(sqrt_limit) ELSE <<>>

\* Variant of FirstMultiple that takes the first multiple strictly above
\* segment_start (floor division plus one instead of ceiling division).
FirstMultipleSkipping(prime, segment_start) ==
    Max(prime * prime, ((segment_start \div prime) + 1) * prime)

\* start = max(prime * prime, (segment_start + prime - 1) // prime * prime)
FirstMultiple(prime, segment_start) ==
    Max(prime * prime, ((segment_start + prime - 1) \div prime) * prime)

\* segment = [True] * (segment_end - segment_start + 1)
\* for prime in base_primes:
\*     for multiple in range(start, segment_end + 1, prime):
\*         segment[multiple - segment_start] = False
\* The loops only ever store False, so an entry is still True at the end
\* exactly when no base prime's range holds its number.
MarkSegment(base_primes, segment_start, segment_end) ==
    Stored([k \in 1..(segment_end - segment_start + 1) |->
        \A b \in 1..Len(base_primes) :
            ~InRange(segment_start + k - 1,
                     FirstMultiple(base_primes[b], segment_start),
                     segment_end + 1, base_primes[b])])

\* for i in range(len(segment)):
\*     if segment[i]:
\*         candidate = segment_start + i
\*         if candidate > sqrt_limit: primes.append(candidate)
\* The candidates one segment appends to primes.
SegmentPrimes(base_primes, segment_start, segment_end, sqrt_limit) ==
    LET segment == MarkSegment(base_primes, segment_start, segment_end)
        Keep(candidate) ==
            At(segment, candidate - segment_start) /\ candidate > sqrt_limit
    IN  SelectSeq(PyRange(segment_start, segment_end + 1), Keep)

\* for segment_start in range(segment_start, limit + 1, segment_size)
RECURSIVE SegmentsFrom(_, _, _, _, _, _)
SegmentsFrom(primes, base_primes, segment_start, segment_size, sqrt_limit, limit) ==
    IF segment_start >= limit + 1 THEN primes
    ELSE LET segment_end == Min(segment_start + segment_size - 1, limit)
         IN  SegmentsFrom(
                primes \o SegmentPrimes(base_primes, segment_start,
                                        segment_end, sqrt_limit),
                base_primes, segment_start + segment_size, segment_size,
                sqrt_limit, limit)

\* _segmented_sieve(limit), limit >= 0
SegmentedSieve(limit) ==
    LET sqrt_limit == IntSqrt(limit)
        base_primes == BasePrimes(sqrt_limit)
        segment_size == Max(sqrt_limit, MinSegmentSize)
    IN  SegmentsFrom(base_primes, base_primes, sqrt_limit + 1, segment_size,
                     sqrt_limit, limit)

\* sieve_of_eratosthenes(limit)
SieveOfEratosthenes(limit) ==
    IF limit < 2 THEN <<>>
    ELSE IF limit > SegmentThreshold THEN SegmentedSieve(limit)
    ELSE StandardSieve(limit)

(***************************************************************************)
(* gcd, lcm, is_prime, prime_factorization (core.py).                      *)
(***************************************************************************)
\* isinstance(x, int); a bool is an int
IsInstanceInt(x) == x.t \in {"int", "bool"}

\* x == 0, for an argument of any type: a string never equals 0
EqualsZero(x) == x.t \in {"int", "bool", "float"} /\ x.v = 0

\* abs(x)
Abs(x) == IF x < 0 THEN 0 - x ELSE x

\* a % b for b # 0: the result takes the sign of the divisor
PyMod(a, b) == IF b > 0 THEN a % b ELSE 0 - ((0 - a) % (0 - b))

\* Variant of GcdLoop that returns a instead of abs(a).
RECURSIVE GcdLoopSigned(_, _)
GcdLoopSigned(a, b) ==
    IF b # 0 THEN GcdLoopSigned(b, PyMod(a, b)) ELSE a

\* while b: a, b = b, a % b
\* return abs(a)
RECURSIVE GcdLoop(_, _)
GcdLoop(a, b) ==
    IF b # 0 THEN GcdLoop(b, PyMod(a, b)) ELSE Abs(a)

\* Variant of Gcd that tests for zero before it tests the types.
GcdZeroCheckFirst(a, b) ==
    IF EqualsZero(a) /\ EqualsZero(b) THEN Raise("ValueError")
    ELSE IF ~IsInstanceInt(a) \/ ~IsInstanceInt(b) THEN Raise("TypeError")
    ELSE Return(GcdLoop(a.v, b.v))

\* gcd(a, b)
Gcd(a, b) ==
    IF ~IsInstanceInt(a) \/ ~IsInstanceInt(b) THEN Raise("TypeError")
    ELSE IF EqualsZero(a) /\ EqualsZero(b) THEN Raise("ValueError")
    ELSE Return(GcdLoop(a.v, b.v))

\* Variant of LcmUsesGcd without the special case for a zero argument.
LcmAlwaysUsesGcd(a, b) == TRUE

\* The condition "a and b" of lcm's conditional expression: both non-zero,
\* so that gcd is called.
LcmUsesGcd(a, b) == a.v # 0 /\ b.v # 0

\* The calls lcm(a, b) makes.
LcmCalls(a, b) ==
    IF IsInstanceInt(a) /\ IsInstanceInt(b) /\ LcmUsesGcd(a, b)
    THEN <<<<"gcd", a, b>>>> ELSE <<>>

\* lcm(a, b): abs(a * b) // gcd(a, b) if a and b else 0; an exception of gcd
\* propagates
Lcm(a, b) ==
    IF ~IsInstanceInt(a) \/ ~IsInstanceInt(b) THEN Raise("TypeError")
    ELSE IF LcmUsesGcd(a, b)
         THEN LET g == Gcd(a, b)
              IN  IF g.kind = "return"
                  THEN Return(Abs(a.v * b.v) \div g.val) ELSE g
         ELSE Return(0)

\* for i in range(i, stop, 2): if n % i == 0: return False
\* return True
RECURSIVE OddDivisorLoop(_, _, _)
OddDivisorLoop(x, i, stop) ==
    IF i >= stop THEN TRUE
    ELSE IF x % i = 0 THEN FALSE
    ELSE OddDivisorLoop(x, i + 2, stop)

\* Variant of TrialDivision whose range stops at int(n ** 0.5), exclusive.
TrialDivisionShort(x) ==
    IF x < 2 THEN FALSE
    ELSE IF x = 2 THEN TRUE
    ELSE IF x % 2 = 0 THEN FALSE
    ELSE OddDivisorLoop(x, 3, IntSqrt(x))

\* The body of is_prime and of _is_prime after the type check.
TrialDivision(x) ==
    IF x < 2 THEN FALSE
    ELSE IF x = 2 THEN TRUE
    ELSE IF x % 2 = 0 THEN FALSE
    ELSE OddDivisorLoop(x, 3, IntSqrt(x) + 1)

\* is_prime(n) of core.py
IsPrime(x) ==
    IF ~IsInstanceInt(x) THEN Raise("TypeError")
    ELSE Return(TrialDivision(x.v))

\* Variant of FactorLoop whose outer loop runs while d * d < n.
RECURSIVE FactorLoopStrict(_, _, _)
FactorLoopStrict(x, d, fs) ==
    IF d * d < x
    THEN IF x % d = 0 THEN FactorLoopStrict(x \div d, d, Append(fs, d))
         ELSE FactorLoopStrict(x, d + 1, fs)
    ELSE IF x > 1 THEN Append(fs, x) ELSE fs

\* while d * d <= n:
\*     while n % d == 0: factors.append(d); n //= d
\*     d += 1
\* if n > 1: factors.append(n)
RECURSIVE FactorLoop(_, _, _)
FactorLoop(x, d, fs) ==
    IF d * d <= x
    THEN IF x % d = 0 THEN FactorLoop(x \div d, d, Append(fs, d))
         ELSE FactorLoop(x, d + 1, fs)
    ELSE IF x > 1 THEN Append(fs, x) ELSE fs

\* prime_factorization(n)
PrimeFactorization(x) ==
    IF ~IsInstanceInt(x) THEN Raise("TypeError")
    ELSE IF x.v < 2 THEN Raise("ValueError")
    ELSE Return(FactorLoop(x.v, 2, <<>>))

(***************************************************************************)
(* is_perfect_number, euler_totient, collatz_sequence (number_theory.py)   *)
(* and find_perfect_numbers (benchmarks.py).                               *)
(***************************************************************************)
\* 1 << k
RECURSIVE ShiftLeftOne(_)
ShiftLeftOne(k) == IF k = 0 THEN 1 ELSE 2 * ShiftLeftOne(k - 1)

\* while temp % 2 == 0: temp //= 2; power_of_2 += 1
\* The pair <<temp, power_of_2>> after the loop; temp # 0.
RECURSIVE StripTwos(_, _)
StripTwos(temp, power_of_2) ==
    IF temp % 2 = 0 THEN StripTwos(temp \div 2, power_of_2 + 1)
    ELSE <<temp, power_of_2>>

\* Variant of MersenneShortcut that does not test the candidate for primality.
MersenneShortcutAnyCandidate(x) ==
    /\ x % 2 = 0
    /\ LET stripped == StripTwos(x, 0)
           mersenne_candidate == stripped[1]
           power_of_2 == stripped[2]
           expected_mersenne == ShiftLeftOne(power_of_2 + 1) - 1
       IN  /\ power_of_2 > 0
           /\ mersenne_candidate = expected_mersenne

\* The even branch of is_perfect_number: TRUE when it returns True at once.
MersenneShortcut(x) ==
    /\ x % 2 = 0
    /\ LET stripped == StripTwos(x, 0)
           mersenne_candidate == stripped[1]
           power_of_2 == stripped[2]
           expected_mersenne == ShiftLeftOne(power_of_2 + 1) - 1
       IN  /\ power_of_2 > 0
           /\ mersenne_candidate = expected_mersenne
           /\ TrialDivision(mersenne_candidate)

\* Variant of AddDivisorPair that adds the complement of every divisor, the
\* root of a square included.
AddDivisorPairAlways(divisor_sum, i, complement) ==
    divisor_sum + i + complement

\* divisor_sum += i; if i != complement: divisor_sum += complement
AddDivisorPair(divisor_sum, i, complement) ==
    IF i # complement THEN divisor_sum + i + complement
    ELSE divisor_sum + i

\* for i in range(i, stop):
\*     if n % i == 0:
\*         divisor_sum += i; complement = n // i
\*         if i != complement: divisor_sum += complement
\*         if divisor_sum > n: return False
\* How the loop is left, by its early return or at the end of the range,
\* with divisor_sum as it is then.
RECURSIVE DivisorSumRun(_, _, _, _)
DivisorSumRun(x, i, stop, divisor_sum) ==
    IF i >= stop THEN [early |-> FALSE, divisor_sum |-> divisor_sum]
    ELSE IF x % i = 0
         THEN LET complement == x \div i
                  added == AddDivisorPair(divisor_sum, i, complement)
              IN  IF added > x THEN [early |-> TRUE, divisor_sum |-> added]
                  ELSE DivisorSumRun(x, i + 1, stop, added)
         ELSE DivisorSumRun(x, i + 1, stop, divisor_sum)

\* The loop with its two returns: False at the early return, otherwise
\* divisor_sum == n.
DivisorSumLoop(x, i, stop, divisor_sum) ==
    LET run == DivisorSumRun(x, i, stop, divisor_sum)
    IN  ~run.early /\ run.divisor_sum = x

\* is_perfect_number(n)
IsPerfectNumber(x) ==
    IF x <= 1 THEN FALSE
    ELSE IF MersenneShortcut(x) THEN TRUE
    ELSE DivisorSumLoop(x, 2, IntSqrt(x) + 1, 1)

\* PerformanceBenchmark.find_perfect_numbers(limit)
FindPerfectNumbers(limit) == SelectSeq(PyRange(1, limit + 1), IsPerfectNumber)

\* set(list)
PySet(list) == {list[k] : k \in DOMAIN list}

\* Variant of TotientUpdate that divides before it multiplies: 1 // p is 0.
TotientUpdateTruncating(res, p) == res * (1 - (1 \div p))

\* result = result * (p - 1) // p
TotientUpdate(res, p) == (res * (p - 1)) \div p

\* Variant of CollatzNext that halves 3n + 1 in the same step.
CollatzNextShortcut(x) == IF x % 2 = 0 THEN x \div 2 ELSE (3 * x + 1) \div 2

\* Variant of CollatzNext with 3n - 1 for an odd n.
CollatzNextMinusOne(x) == IF x % 2 = 0 THEN x \div 2 ELSE 3 * x - 1

\* if n % 2 == 0: n = n // 2  else: n = 3 * n + 1
CollatzNext(x) == IF x % 2 = 0 THEN x \div 2 ELSE 3 * x + 1

\* fibonacci(n): for _ in range(i, stop): a, b = b, a + b; return b
RECURSIVE FibonacciLoop(_, _, _, _)
FibonacciLoop(a, b, i, stop) ==
    IF i >= stop THEN b ELSE FibonacciLoop(b, a + b, i + 1, stop)

\* fibonacci(n)
Fibonacci(x) == IF x <= 1 THEN x ELSE FibonacciLoop(0, 1, 2, x + 1)

\* Variant of NextFibonacci that adds the last element to itself.
NextFibonacciDoubled(list, i) == At(list, i - 1) + At(list, i - 1)

\* sequence[i - 1] + sequence[i - 2]
NextFibonacci(list, i) == At(list, i - 1) + At(list, i - 2)

\* for i in range(i, count): sequence.append(sequence[i-1] + sequence[i-2])
RECURSIVE FibonacciAppend(_, _, _)
FibonacciAppend(list, i, count) ==
    IF i >= count THEN list
    ELSE FibonacciAppend(Append(list, NextFibonacci(list, i)), i + 1, count)

\* fibonacci_sequence(count)
FibonacciSequence(count) ==
    IF count <= 0 THEN <<>>
    ELSE IF count = 1 THEN <<0>>
    ELSE IF count = 2 THEN <<0, 1>>
    ELSE FibonacciAppend(<<0, 1>>, 2, count)

(***************************************************************************)
(* twin_primes (number_theory.py).                                         *)
(***************************************************************************)
\* Variant of HasTwin that tests p + 2 for primality instead of looking it
\* up among the primes up to limit.
HasTwinByPrimality(p, prime_set) == TrialDivision(p + 2)

\* p + 2 in prime_set
HasTwin(p, prime_set) == (p + 2) \in prime_set

\* for p in primes: if p + 2 in prime_set: twin_pairs.append((p, p + 2))
\* over primes[k..].
RECURSIVE TwinLoop(_, _, _, _)
TwinLoop(primes, k, prime_set, twin_pairs) ==
    IF k > Len(primes) THEN twin_pairs
    ELSE TwinLoop(primes, k + 1, prime_set,
                  IF HasTwin(primes[k], prime_set)
                  THEN Append(twin_pairs, <<primes[k], primes[k] + 2>>)
                  ELSE twin_pairs)

\* twin_primes(limit)
TwinPrimes(limit) ==
    LET primes == SieveOfEratosthenes(limit)
    IN  TwinLoop(primes, 1, PySet(primes), <<>>)

(***************************************************************************)
(* NumberTheoryUtils.chinese_remainder_theorem (number_theory.py).         *)
(***************************************************************************)
\* a // b of Python integers, b /= 0: the floor of the quotient
PyFloorDiv(a, b) == IF b > 0 THEN a \div b ELSE (0 - a) \div (0 - b)

\* pow(base, -1, m) of Python integers: the inverse of base modulo abs(m),
\* with the sign of m; ValueError when m is 0 or base has no inverse.
PyPowInverse(base, m) ==
    IF m = 0 THEN Raise("ValueError")
    ELSE IF Abs(m) = 1 THEN Return(0)
    ELSE LET inverses == {x \in 1..(Abs(m) - 1) : PyMod(base * x, Abs(m)) = 1}
         IN  IF inverses = {} THEN Raise("ValueError")
             ELSE LET x == CHOOSE x \in inverses : TRUE
                  IN  Return(IF m > 0 THEN x ELSE x + m)

\* Variant of InnerRange that pairs a modulus with its right neighbour only.
InnerRangeAdjacent(i, len) == PyRange(i + 1, Min(i + 2, len))

\* range(i + 1, len(moduli))
InnerRange(i, len) == PyRange(i + 1, len)

\* The pairs (i, j) in the order the two loops over range(len(moduli)) and
\* range(i + 1, len(moduli)) visit them, from row i on.
RECURSIVE PairsFrom(_, _)
PairsFrom(i, len) ==
    IF i >= len THEN <<>>
    ELSE LET js == InnerRange(i, len)
         IN  [k \in 1..Len(js) |-> <<i, js[k]>>] \o PairsFrom(i + 1, len)

\* if gcd(moduli[i], moduli[j]) != 1: raise ValueError(...) for pairs[k..];
\* an exception of gcd propagates.  The result is the gcd calls made and
\* the exception raised, if any.
RECURSIVE CoprimeLoop(_, _, _, _)
CoprimeLoop(moduli, pairs, k, called) ==
    IF k > Len(pairs) THEN [calls |-> called, out |-> Return(0)]
    ELSE LET a == PyInt(At(moduli, pairs[k][1]))
             b == PyInt(At(moduli, pairs[k][2]))
             g == Gcd(a, b)
             now == Append(called, <<"gcd", a, b>>)
         IN  IF g.kind # "return" THEN [calls |-> now, out |-> g]
             ELSE IF g.val # 1
             THEN [calls |-> now, out |-> Raise("ValueError")]
             ELSE CoprimeLoop(moduli, pairs, k + 1, now)

\* for m in moduli: prod *= m
RECURSIVE ProdLoop(_, _, _)
ProdLoop(moduli, k, prod) ==
    IF k > Len(moduli) THEN prod ELSE ProdLoop(moduli, k + 1, prod * moduli[k])

\* for r, m in zip(remainders, moduli): p = prod // m;
\* total += r * p * pow(p, -1, m), from the k-th pair on.
RECURSIVE CrtLoop(_, _, _, _, _)
CrtLoop(remainders, moduli, k, prod, total) ==
    IF k > Min(Len(remainders), Len(moduli)) THEN Return(total)
    ELSE LET r == remainders[k]
             m == moduli[k]
         IN  IF m = 0 THEN Raise("ZeroDivisionError")
             ELSE LET p == PyFloorDiv(prod, m)
                      inv == PyPowInverse(p, m)
                  IN  IF inv.kind # "return" THEN inv
                      ELSE CrtLoop(remainders, moduli, k + 1, prod,
                                   total + r * p * inv.val)

\* The coprimality check of chinese_remainder_theorem over all pairs.
CoprimeCheck(moduli) ==
    CoprimeLoop(moduli, PairsFrom(0, Len(moduli)), 1, <<>>)

\* The gcd calls chinese_remainder_theorem(remainders, moduli) makes.
CrtCalls(remainders, moduli) ==
    IF Len(remainders) # Len(moduli) THEN <<>>
    ELSE CoprimeCheck(moduli).calls

\* chinese_remainder_theorem(remainders, moduli)
ChineseRemainderTheorem(remainders, moduli) ==
    IF Len(remainders) # Len(moduli) THEN Raise("ValueError")
    ELSE LET checked == CoprimeCheck(moduli).out
         IN  IF checked.kind # "return" THEN checked
             ELSE LET prod == ProdLoop(moduli, 1, 1)
                      total == CrtLoop(remainders, moduli, 1, prod, 0)
                  IN  IF total.kind # "return" THEN total
                      ELSE IF prod = 0 THEN Raise("ZeroDivisionError")
                      ELSE Return(PyMod(total.val, prod))

(***************************************************************************)
(* Inputs.                                                                 *)
(***************************************************************************)
SieveLimits == (0 - 2)..MaxLimit

\* Limits at which the segmented sieve fills its first window exactly and
\* then spills into a second one.
LargeLimits ==
    {MinSegmentSize + IntSqrt(MinSegmentSize) + d : d \in 0..LargeSpan}

\* Arguments of gcd and lcm: ints of both signs, the bools, and values that
\* are not ints (the floats 0.0 and 5.0, the strings "0" and "5").
IntArgs == {PyInt(v) : v \in (0 - MaxArg)..MaxArg}
BoolArgs == {[t |-> "bool", v |-> v] : v \in {0, 1}}
NonIntArgs == {[t |-> ty, v |-> v] : ty \in {"float", "str"}, v \in {0, 5}}
AnyArgs == IntArgs \cup BoolArgs \cup NonIntArgs

\* Arguments of is_prime, prime_factorization and euler_totient.
SmallInts == (0 - 3)..MaxN

(***************************************************************************)
(* Calls.                                                                  *)
(***************************************************************************)
Init ==
    /\ pc = "idle"
    /\ fn = "none"
    /\ args = <<>>
    /\ ret = NoOutcome
    /\ calls = <<>>
    /\ n = 0
    /\ sequence = <<>>
    /\ result = 0
    /\ factors = {}
    /\ gb_primes = {}
    /\ order = <<>>
    /\ pos = 0
    /\ stage = "none"
    /\ fpc = 1
    /\ proven = FALSE
    /\ attached = FALSE
    /\ axioms = <<>>
    /\ steps = <<>>
    /\ removed = 0
    /\ running = TRUE
    /\ cpc = "constructed"
    /\ stdin = <<>>
    /\ consumed = <<>>
    /\ parts = <<>>
    /\ handled = <<>>
    /\ last = "none"
    /\ results = <<>>
    /\ bpc = "idle"
    /\ timed = [func |-> "none", args |-> <<>>, kwargs |-> <<>>,
                iterations |-> 0]
    /\ times = <<>>
    /\ invoked = 0
    /\ log = <<>>
    /\ given = <<>>
    /\ setA = <<>>
    /\ setB = <<>>
    /\ spc = "none"
    /\ sop = [op |-> "none", other |-> "none"]
    /\ made = [kind |-> "none", elements |-> <<>>]
    /\ hpc = "idle"
    /\ hname = "none"
    /\ hargs = <<>>
    /\ reached = <<>>
    /\ printed = "none"

\* The outcome of a call of a function that runs to its end in one step.
Outcome(f, a, out, called) ==
    /\ fn' = f
    /\ args' = a
    /\ ret' = out
    /\ calls' = called

CallSieve ==
    /\ pc = "idle"
    /\ \E limit \in SieveLimits :
            Outcome("sieve_of_eratosthenes", <<PyInt(limit)>>,
                    Return(SieveOfEratosthenes(limit)), <<>>)
    /\ pc' = "done"
    /\ UNCHANGED locals

CallSegmentedSieve ==
    /\ pc = "idle"
    /\ \E limit \in (0..MaxLimit) \cup LargeLimits :
            Outcome("_segmented_sieve", <<PyInt(limit)>>,
                    Return(SegmentedSieve(limit)), <<>>)
    /\ pc' = "done"
    /\ UNCHANGED locals

\* The caller takes the outcome; the next call starts afresh.
Finish ==
    /\ pc = "done"
    /\ pc' = "idle"
    /\ fn' = "none"
    /\ args' = <<>>
    /\ ret' = NoOutcome
    /\ calls' = <<>>
    /\ n' = 0
    /\ sequence' = <<>>
    /\ result' = 0
    /\ factors' = {}
    /\ gb_primes' = {}
    /\ order' = <<>>
    /\ pos' = 0
    /\ UNCHANGED objects

CallGcd ==
    /\ pc = "idle"
    /\ \E a \in AnyArgs, b \in AnyArgs :
            Outcome("gcd", <<a, b>>, Gcd(a, b), <<>>)
    /\ pc' = "done"
    /\ UNCHANGED locals

CallLcm ==
    /\ pc = "idle"
    /\ \E a \in AnyArgs, b \in AnyArgs :
            Outcome("lcm", <<a, b>>, Lcm(a, b), LcmCalls(a, b))
    /\ pc' = "done"
    /\ UNCHANGED locals

CallIsPrime ==
    /\ pc = "idle"
    /\ \E x \in {PyInt(v) : v \in SmallInts} \cup BoolArgs \cup NonIntArgs :
            Outcome("is_prime", <<x>>, IsPrime(x), <<>>)
    /\ pc' = "done"
    /\ UNCHANGED locals

CallPrimeFactorization ==
    /\ pc = "idle"
    /\ \E x \in {PyInt(v) : v \in SmallInts} \cup BoolArgs \cup NonIntArgs :
            Outcome("prime_factorization", <<x>>, PrimeFactorization(x), <<>>)
    /\ pc' = "done"
    /\ UNCHANGED locals

CallIsPerfectNumber ==
    /\ pc = "idle"
    /\ \E x \in (0 - 2)..MaxPerfect :
            Outcome("is_perfect_number", <<PyInt(x)>>,
                    Return(IsPerfectNumber(x)), <<>>)
    /\ pc' = "done"
    /\ UNCHANGED locals

CallFindPerfectNumbers ==
    /\ pc = "idle"
    /\ \E limit \in (0 - 1)..MaxScan :
            Outcome("find_perfect_numbers", <<PyInt(limit)>>,
                    Return(FindPerfectNumbers(limit)), <<>>)
    /\ pc' = "done"
    /\ UNCHANGED locals

\* euler_totient(n) up to its loop: the early return for n == 1, the
\* factorization (whose exception propagates), result = n.
CallEulerTotient ==
    /\ pc = "idle"
    /\ \E x \in SmallInts :
        LET pf == PrimeFactorization(PyInt(x))
        IN  /\ fn' = "euler_totient"
            /\ args' = <<PyInt(x)>>
            /\ IF x = 1
               THEN /\ ret' = Return(1)
                    /\ calls' = <<>>
                    /\ pc' = "done"
                    /\ UNCHANGED <<result, factors>>
               ELSE /\ calls' = <<<<"prime_factorization", PyInt(x)>>>>
                    /\ IF pf.kind = "return"
                       THEN /\ result' = x
                            /\ factors' = PySet(pf.val)
                            /\ pc' = "totient_loop"
                            /\ UNCHANGED ret
                       ELSE /\ ret' = pf
                            /\ pc' = "done"
                            /\ UNCHANGED <<result, factors>>
    /\ UNCHANGED <<n, sequence>>
    /\ UNCHANGED rest

\* One round of "for p in factors": a set is visited in an order the
\* language does not fix.
TotientStep ==
    /\ pc = "totient_loop"
    /\ \E p \in factors :
        /\ result' = TotientUpdate(result, p)
        /\ factors' = factors \ {p}
    /\ UNCHANGED <<pc, fn, args, ret, calls, n, sequence>>
    /\ UNCHANGED rest

\* return result
TotientReturn ==
    /\ pc = "totient_loop"
    /\ factors = {}
    /\ ret' = Return(result)
    /\ pc' = "done"
    /\ UNCHANGED <<fn, args, calls, n, sequence, result, factors>>
    /\ UNCHANGED rest

\* collatz_sequence(n) up to its loop: the early return for n <= 0,
\* sequence = [n].
CallCollatz ==
    /\ pc = "idle"
    /\ \E x \in (0 - 2)..MaxStart :
        /\ fn' = "collatz_sequence"
        /\ args' = <<PyInt(x)>>
        /\ IF x <= 0
           THEN /\ ret' = Return(<<>>)
                /\ pc' = "done"
                /\ UNCHANGED <<n, sequence>>
           ELSE /\ n' = x
                /\ sequence' = <<x>>
                /\ pc' = "collatz_loop"
                /\ UNCHANGED ret
    /\ calls' = <<>>
    /\ UNCHANGED <<result, factors>>
    /\ UNCHANGED rest

\* One round of "while n != 1".
CollatzStep ==
    /\ pc = "collatz_loop"
    /\ n # 1
    /\ Len(sequence) < MaxSequence
    /\ n' = CollatzNext(n)
    /\ sequence' = Append(sequence, n')
    /\ UNCHANGED <<pc, fn, args, ret, calls, result, factors>>
    /\ UNCHANGED rest

\* return sequence
CollatzReturn ==
    /\ pc = "collatz_loop"
    /\ n = 1
    /\ ret' = Return(sequence)
    /\ pc' = "done"
    /\ UNCHANGED <<fn, args, calls, n, sequence, result, factors>>
    /\ UNCHANGED rest

\* verify_goldbach_conjecture(limit) up to its outer loop: primes =
\* set(sieve_of_eratosthenes(limit)), n = 4.
CallGoldbach ==
    /\ pc = "idle"
    /\ \E limit \in (0 - 2)..MaxGoldbach :
        /\ fn' = "verify_goldbach_conjecture"
        /\ args' = <<PyInt(limit)>>
        /\ calls' = <<<<"sieve_of_eratosthenes", PyInt(limit)>>>>
        /\ gb_primes' = PySet(SieveOfEratosthenes(limit))
    /\ n' = 4
    /\ order' = <<>>
    /\ pos' = 0
    /\ pc' = "goldbach_outer"
    /\ UNCHANGED <<ret, sequence, result, factors>>
    /\ UNCHANGED objects

\* for n in range(4, limit + 1, 2): found_pair = False and the inner loop
\* starts, or the range is exhausted and the function returns True.
GoldbachOuter ==
    /\ pc = "goldbach_outer"
    /\ IF n > args[1].v
       THEN /\ ret' = Return(TRUE)
            /\ pc' = "done"
       ELSE /\ pc' = "goldbach_inner"
            /\ UNCHANGED ret
    /\ pos' = 0
    /\ UNCHANGED <<fn, args, calls, n, sequence, result, factors,
                   gb_primes, order>>
    /\ UNCHANGED objects

\* One round of "for p in primes": a set is visited in an order the
\* language does not fix, the same on every visit of the unchanged set.  The
\* loop ends without a pair when the set is exhausted or when p > n // 2
\* breaks it; then "if not found_pair: return False".
GoldbachInner ==
    /\ pc = "goldbach_inner"
    /\ IF pos = Cardinality(gb_primes)
       THEN /\ ret' = Return(FALSE)
            /\ pc' = "done"
            /\ UNCHANGED <<n, order, pos>>
       ELSE \E p \in IF pos < Len(order) THEN {order[pos + 1]}
                     ELSE gb_primes \ PySet(order) :
              /\ order' = IF pos < Len(order) THEN order
                          ELSE Append(order, p)
              /\ IF p > n \div 2
                 THEN /\ ret' = Return(FALSE)
                      /\ pc' = "done"
                      /\ UNCHANGED <<n, pos>>
                 ELSE IF (n - p) \in gb_primes
                 THEN /\ n' = n + 2
                      /\ pc' = "goldbach_outer"
                      /\ UNCHANGED <<ret, pos>>
                 ELSE /\ pos' = pos + 1
                      /\ UNCHANGED <<pc, ret, n>>
    /\ UNCHANGED <<fn, args, calls, sequence, result, factors, gb_primes>>
    /\ UNCHANGED objects

\* The lists of at most len elements of S.
ListsUpTo(S, len) == UNION {[1..k -> S] : k \in 0..len}

\* Moduli: one negative, zero, one, and coprime and non-coprime pairs.
ModuliValues == {0 - 3} \cup 0..MaxModulus

\* Remainders: a negative one and one above every modulus.
RemainderValues == {0 - 1, MaxModulus + 2}

CallCRT ==
    /\ pc = "idle"
    /\ \E remainders \in ListsUpTo(RemainderValues, MaxLen),
          moduli \in ListsUpTo(ModuliValues, MaxLen) :
            Outcome("chinese_remainder_theorem", <<remainders, moduli>>,
                    ChineseRemainderTheorem(remainders, moduli),
                    CrtCalls(remainders, moduli))
    /\ pc' = "done"
    /\ UNCHANGED locals

NextCRT == CallCRT \/ Finish

SpecCRT == Init /\ [][NextCRT]_vars

CallTwinPrimes ==
    /\ pc = "idle"
    /\ \E limit \in (0 - 2)..MaxTwin :
            Outcome("twin_primes", <<PyInt(limit)>>,
                    Return(TwinPrimes(limit)),
                    <<<<"sieve_of_eratosthenes", PyInt(limit)>>>>)
    /\ pc' = "done"
    /\ UNCHANGED locals

CallFibonacciSequence ==
    /\ pc = "idle"
    /\ \E count \in (0 - 2)..MaxCount :
            Outcome("fibonacci_sequence", <<PyInt(count)>>,
                    Return(FibonacciSequence(count)), <<>>)
    /\ pc' = "done"
    /\ UNCHANGED locals

Next ==
    \/ CallGcd
    \/ CallLcm
    \/ CallIsPrime
    \/ CallPrimeFactorization
    \/ CallIsPerfectNumber
    \/ CallFindPerfectNumbers
    \/ CallFibonacciSequence
    \/ CallEulerTotient
    \/ TotientStep
    \/ TotientReturn
    \/ CallCollatz
    \/ CollatzStep
    \/ CollatzReturn
    \/ CallTwinPrimes
    \/ CallGoldbach
    \/ GoldbachOuter
    \/ GoldbachInner
    \/ Finish

Spec == Init /\ [][Next]_vars

NextCollatz == CallCollatz \/ CollatzStep \/ CollatzReturn \/ Finish

\* collatz_sequence is sequential code: once called, its loop goes on as
\* long as its condition holds and then the function returns.
SpecCollatz ==
    /\ Init
    /\ [][NextCollatz]_vars
    /\ WF_<<pc, n, sequence>>(CollatzStep)
    /\ WF_<<pc, n, sequence>>(CollatzReturn)

NextSieve == CallSieve \/ CallSegmentedSieve \/ Finish

SpecSieve == Init /\ [][NextSieve]_vars

(***************************************************************************)
(* The proof objects: Theorem, Proof, ProofStep (proofs.py) and            *)
(* create_fundamental_theorem_of_arithmetic (number_theory.py).  A         *)
(* statement is its description; a step is its premises and conclusion.    *)
(***************************************************************************)
\* ProofStep(premises, conclusion, ...)
ProofStep(premises, conclusion) ==
    [premises |-> premises, conclusion |-> conclusion]

\* Variant of ResolvedBefore that counts the step's own conclusion in.
ResolvedWithOwn(resolved, step) == resolved \cup {step.conclusion}

\* Proof.verify: the statements a step's premises are looked up in, the
\* axioms and the conclusions of the steps strictly before it.
ResolvedBefore(resolved, step) == resolved

\* Proof.verify: the walk over steps[k..], resolved being the axioms and the
\* conclusions of the steps before k.
RECURSIVE VerifyLoop(_, _, _)
VerifyLoop(sts, k, resolved) ==
    IF k > Len(sts) THEN TRUE
    ELSE IF \E j \in 1..Len(sts[k].premises) :
                sts[k].premises[j] \notin ResolvedBefore(resolved, sts[k])
    THEN FALSE
    ELSE VerifyLoop(sts, k + 1, resolved \cup {sts[k].conclusion})

\* Proof.verify()
Verify(axs, sts) == VerifyLoop(sts, 1, PySet(axs))

\* The axioms of create_fundamental_theorem_of_arithmetic, in the order added.
FtaAxioms == <<"axiom1", "axiom2", "axiom3">>

\* Variant of FtaSteps in which step9 is added before step8.
FtaStepsConjunctionEarly ==
    << ProofStep(<<"axiom1">>, "step1.conclusion"),
       ProofStep(<<"step1.conclusion", "axiom2">>, "step2.conclusion"),
       ProofStep(<<"step2.conclusion">>, "step3.conclusion"),
       ProofStep(<<"step1.conclusion", "step3.conclusion">>, "existence_stmt"),
       ProofStep(<<"existence_stmt">>, "step5.conclusion"),
       ProofStep(<<"step5.conclusion">>, "step6.conclusion"),
       ProofStep(<<"step6.conclusion">>, "step7.conclusion"),
       ProofStep(<<"existence_stmt", "uniqueness_stmt">>, "description"),
       ProofStep(<<"step7.conclusion">>, "uniqueness_stmt") >>

\* step1 .. step9 of create_fundamental_theorem_of_arithmetic, in the order
\* added.
FtaSteps ==
    << ProofStep(<<"axiom1">>, "step1.conclusion"),
       ProofStep(<<"step1.conclusion", "axiom2">>, "step2.conclusion"),
       ProofStep(<<"step2.conclusion">>, "step3.conclusion"),
       ProofStep(<<"step1.conclusion", "step3.conclusion">>, "existence_stmt"),
       ProofStep(<<"existence_stmt">>, "step5.conclusion"),
       ProofStep(<<"step5.conclusion">>, "step6.conclusion"),
       ProofStep(<<"step6.conclusion">>, "step7.conclusion"),
       ProofStep(<<"step7.conclusion">>, "uniqueness_stmt"),
       ProofStep(<<"existence_stmt", "uniqueness_stmt">>, "description") >>

\* The k-th of the statements of one kind.
Statement(op, k) == [op |-> op, k |-> k]

\* Variant of FactoryProgram that marks the theorem proven as soon as the
\* axioms are added.
FactoryProgramProvenEarly ==
    <<Statement("Theorem", 0), Statement("Proof", 0)>>
    \o [k \in 1..Len(FtaAxioms) |-> Statement("add_axiom", k)]
    \o <<Statement("proven", 0)>>
    \o [k \in 1..Len(FtaSteps) |-> Statement("add_step", k)]
    \o <<Statement("attach", 0), Statement("return", 0)>>

\* The statements of create_fundamental_theorem_of_arithmetic that act on
\* the theorem and its proof, in program order.
FactoryProgram ==
    <<Statement("Theorem", 0), Statement("Proof", 0)>>
    \o [k \in 1..Len(FtaAxioms) |-> Statement("add_axiom", k)]
    \o [k \in 1..Len(FtaSteps) |-> Statement("add_step", k)]
    \o <<Statement("attach", 0), Statement("proven", 0), Statement("return", 0)>>

\* The factory is about to execute a statement of the kind op.
FactoryAt(op) ==
    /\ pc = "idle"
    /\ stage \in {"none", "factory"}
    /\ fpc <= Len(FactoryProgram)
    /\ FactoryProgram[fpc].op = op

\* theorem = Theorem(description)
FactoryTheorem ==
    /\ FactoryAt("Theorem")
    /\ stage' = "factory"
    /\ fpc' = fpc + 1
    /\ proven' = FALSE
    /\ attached' = FALSE
    /\ UNCHANGED <<axioms, steps, removed>>
    /\ UNCHANGED <<pc, fn, args, ret, calls, scratch, clivars, tools>>

\* proof = Proof(theorem)
FactoryProof ==
    /\ FactoryAt("Proof")
    /\ fpc' = fpc + 1
    /\ axioms' = <<>>
    /\ steps' = <<>>
    /\ UNCHANGED <<stage, proven, attached, removed>>
    /\ UNCHANGED <<pc, fn, args, ret, calls, scratch, clivars, tools>>

\* proof.add_axiom(axiom1), ..., proof.add_axiom(axiom3)
FactoryAddAxiom ==
    /\ FactoryAt("add_axiom")
    /\ fpc' = fpc + 1
    /\ axioms' = Append(axioms, FtaAxioms[FactoryProgram[fpc].k])
    /\ UNCHANGED <<stage, proven, attached, steps, removed>>
    /\ UNCHANGED <<pc, fn, args, ret, calls, scratch, clivars, tools>>

\* proof.add_step(step1), ..., proof.add_step(step9)
FactoryAddStep ==
    /\ FactoryAt("add_step")
    /\ fpc' = fpc + 1
    /\ steps' = Append(steps, FtaSteps[FactoryProgram[fpc].k])
    /\ UNCHANGED <<stage, proven, attached, axioms, removed>>
    /\ UNCHANGED <<pc, fn, args, ret, calls, scratch, clivars, tools>>

\* theorem.proof = proof
FactoryAttach ==
    /\ FactoryAt("attach")
    /\ fpc' = fpc + 1
    /\ attached' = TRUE
    /\ UNCHANGED <<stage, proven, axioms, steps, removed>>
    /\ UNCHANGED <<pc, fn, args, ret, calls, scratch, clivars, tools>>

\* theorem.proven = True
FactoryProven ==
    /\ FactoryAt("proven")
    /\ fpc' = fpc + 1
    /\ proven' = TRUE
    /\ UNCHANGED <<stage, attached, axioms, steps, removed>>
    /\ UNCHANGED <<pc, fn, args, ret, calls, scratch, clivars, tools>>

\* return theorem
FactoryReturn ==
    /\ FactoryAt("return")
    /\ fpc' = fpc + 1
    /\ stage' = "returned"
    /\ UNCHANGED <<proven, attached, axioms, steps, removed>>
    /\ UNCHANGED <<pc, fn, args, ret, calls, scratch, clivars, tools>>

\* One step is taken out of the steps of the proof the factory returned,
\* the others keeping their order.
RemoveStep ==
    /\ pc = "idle"
    /\ stage = "returned"
    /\ removed = 0
    /\ \E k \in 1..Len(steps) :
        /\ steps' = SubSeq(steps, 1, k - 1) \o SubSeq(steps, k + 1, Len(steps))
        /\ removed' = k
    /\ UNCHANGED <<stage, fpc, proven, attached, axioms>>
    /\ UNCHANGED <<pc, fn, args, ret, calls, scratch, clivars, tools>>

\* The statements a caller builds a proof of.
Statements == {"P", "Q"}

\* The steps a caller builds a proof of.
CallerSteps ==
    {ProofStep(ps, c) : ps \in ListsUpTo(Statements, MaxPremises),
                        c \in Statements}

\* A caller creates a Theorem and a Proof of it.
NewProof ==
    /\ pc = "idle"
    /\ stage = "none"
    /\ stage' = "free"
    /\ proven' = FALSE
    /\ attached' = FALSE
    /\ axioms' = <<>>
    /\ steps' = <<>>
    /\ UNCHANGED <<fpc, removed>>
    /\ UNCHANGED <<pc, fn, args, ret, calls, scratch, clivars, tools>>

\* proof.add_axiom(axiom): appends
AddAxiom ==
    /\ pc = "idle"
    /\ stage = "free"
    /\ Len(axioms) < MaxAxioms
    /\ \E axiom \in Statements : axioms' = Append(axioms, axiom)
    /\ UNCHANGED <<stage, fpc, proven, attached, steps, removed>>
    /\ UNCHANGED <<pc, fn, args, ret, calls, scratch, clivars, tools>>

\* proof.add_step(step): appends, whatever the premises of the step
AddStep ==
    /\ pc = "idle"
    /\ stage = "free"
    /\ Len(steps) < MaxSteps
    /\ \E step \in CallerSteps : steps' = Append(steps, step)
    /\ UNCHANGED <<stage, fpc, proven, attached, axioms, removed>>
    /\ UNCHANGED <<pc, fn, args, ret, calls, scratch, clivars, tools>>

\* proof.verify() on the proof of a caller or on the one the factory returned
CallVerify ==
    /\ pc = "idle"
    /\ stage \in {"free", "returned"}
    /\ Outcome("verify", <<>>, Return(Verify(axioms, steps)), <<>>)
    /\ pc' = "done"
    /\ UNCHANGED locals

NextProof ==
    \/ FactoryTheorem
    \/ FactoryProof
    \/ FactoryAddAxiom
    \/ FactoryAddStep
    \/ FactoryAttach
    \/ FactoryProven
    \/ FactoryReturn
    \/ RemoveStep
    \/ NewProof
    \/ AddAxiom
    \/ AddStep
    \/ CallVerify
    \/ Finish

SpecProof == Init /\ [][NextProof]_vars

(***************************************************************************)
(* EternalMathCLI (cli.py): construction, run, _quit.  A line is the       *)
(* sequence of its words and the whitespace between them.                  *)
(***************************************************************************)
\* self.commands: the handler of each command
commands ==
    [c \in {"help", "primes", "fibonacci", "perfect", "twins", "goldbach",
            "euler", "collatz", "crt", "theorem", "examples", "simplify",
            "expand", "factor", "solve", "diff", "integrate", "limit",
            "taylor", "substitute", "plot", "plotseq", "plotprimes",
            "plotcollatz", "plotcomp", "benchmark", "quit", "exit"} |->
        CASE c = "help" -> "_help"
          [] c = "primes" -> "_primes"
          [] c = "fibonacci" -> "_fibonacci"
          [] c = "perfect" -> "_perfect_numbers"
          [] c = "twins" -> "_twin_primes"
          [] c = "goldbach" -> "_goldbach"
          [] c = "euler" -> "_euler_totient"
          [] c = "collatz" -> "_collatz"
          [] c = "crt" -> "_chinese_remainder"
          [] c = "theorem" -> "_show_theorem"
          [] c = "examples" -> "_show_examples"
          [] c = "simplify" -> "_simplify"
          [] c = "expand" -> "_expand"
          [] c = "factor" -> "_factor"
          [] c = "solve" -> "_solve"
          [] c = "diff" -> "_differentiate"
          [] c = "integrate" -> "_integrate"
          [] c = "limit" -> "_limit"
          [] c = "taylor" -> "_taylor_series"
          [] c = "substitute" -> "_substitute"
          [] c = "plot" -> "_plot_function"
          [] c = "plotseq" -> "_plot_sequence"
          [] c = "plotprimes" -> "_plot_primes"
          [] c = "plotcollatz" -> "_plot_collatz"
          [] c = "plotcomp" -> "_plot_comparative"
          [] c = "benchmark" -> "_benchmark"
          [] c = "quit" -> "_quit"
          [] c = "exit" -> "_quit"]

\* The whitespace between words.
Whitespace == {" ", "\t"}

\* str.strip(): the line without its leading and trailing whitespace
RECURSIVE Strip(_)
Strip(line) ==
    IF line = <<>> THEN line
    ELSE IF Head(line) \in Whitespace THEN Strip(Tail(line))
    ELSE IF line[Len(line)] \in Whitespace
    THEN Strip(SubSeq(line, 1, Len(line) - 1))
    ELSE line

\* str.lower() of a word
LowerWord(w) ==
    CASE w = "QUIT" -> "quit"
      [] w = "Exit" -> "exit"
      [] w = "Help" -> "help"
      [] OTHER -> w

\* str.lower()
Lower(line) == [k \in 1..Len(line) |-> LowerWord(line[k])]

\* str.split(): the words of the line
Split(line) == SelectSeq(line, LAMBDA w : w \notin Whitespace)

\* Variant of QuitRunning in which _quit leaves running as it is.
QuitRunningKept == TRUE

\* _quit: self.running = False
QuitRunning == FALSE

\* Variant of OnException in which every exception ends the loop.
OnExceptionBreak(e) == "break"

\* The except clauses of run: KeyboardInterrupt and EOFError break the loop,
\* any other Exception is reported and the loop goes on.
OnException(e) ==
    IF e \in {"KeyboardInterrupt", "EOFError"} THEN "break" ELSE "continue"

\* How a handler other than _quit can end: it returns, or an exception
\* leaves it (an error it does not catch, or Ctrl-C while it runs).
HandlerOutcomes == {"returns", "Exception", "KeyboardInterrupt"}

\* A line typed at the prompt.
Typed(text) == [kind |-> "line", text |-> text]

\* Ctrl-C or Ctrl-D at the prompt.
Signal(e) == [kind |-> e, text |-> <<>>]

\* What can arrive at the prompt: empty and blank lines, quit and exit in
\* several spellings, a command, an unknown command, Ctrl-C, Ctrl-D.
InputEvents ==
    { Typed(<<>>),
      Typed(<<" ", "\t">>),
      Typed(<<" ", "QUIT", " ">>),
      Typed(<<"Exit", " ", "now">>),
      Typed(<<"help">>),
      Typed(<<"bogus", " ", "quit">>),
      Signal("KeyboardInterrupt"),
      Signal("EOFError") }

\* cli.run() is called: the welcome is printed and the loop is entered.  The
\* terminal holds what will be typed; past its end input() raises EOFError.
CliRun ==
    /\ cpc = "constructed"
    /\ \E typed \in ListsUpTo(InputEvents, MaxLines) : stdin' = typed
    /\ cpc' = "while"
    /\ UNCHANGED <<running, consumed, parts, handled, last>>
    /\ UNCHANGED <<pc, fn, args, ret, calls, scratch, proofvars, tools>>

\* while self.running
CliWhile ==
    /\ cpc = "while"
    /\ cpc' = IF running THEN "input" ELSE "returned"
    /\ UNCHANGED <<running, stdin, consumed, parts, handled, last>>
    /\ UNCHANGED <<pc, fn, args, ret, calls, scratch, proofvars, tools>>

\* user_input = input(...).strip().lower(); an empty one continues the loop;
\* otherwise parts = user_input.split().  KeyboardInterrupt and EOFError
\* raised by input() go to the except clauses.
CliInput ==
    /\ cpc = "input"
    /\ IF stdin = <<>> \/ Head(stdin).kind # "line"
       THEN LET e == IF stdin = <<>> THEN "EOFError" ELSE Head(stdin).kind
            IN  /\ last' = e
                /\ cpc' = IF OnException(e) = "break" THEN "returned"
                          ELSE "while"
                /\ UNCHANGED parts
       ELSE LET user_input == Lower(Strip(Head(stdin).text))
            IN  IF user_input = <<>>
                THEN /\ last' = "empty"
                     /\ cpc' = "while"
                     /\ UNCHANGED parts
                ELSE /\ parts' = Split(user_input)
                     /\ cpc' = "dispatch"
                     /\ UNCHANGED last
    /\ stdin' = IF stdin = <<>> THEN stdin ELSE Tail(stdin)
    /\ consumed' = IF stdin = <<>> THEN consumed
                   ELSE Append(consumed, Head(stdin))
    /\ UNCHANGED <<running, handled>>
    /\ UNCHANGED <<pc, fn, args, ret, calls, scratch, proofvars, tools>>

\* command = parts[0]; a known command has its handler called, which for
\* quit and exit is _quit; an unknown one is reported.  An exception that
\* leaves the handler goes to the except clauses.
CliDispatch ==
    /\ cpc = "dispatch"
    /\ LET command == parts[1]
       IN  IF command \in DOMAIN commands
           THEN /\ handled' = Append(handled, command)
                /\ IF commands[command] = "_quit"
                   THEN /\ running' = QuitRunning
                        /\ last' = "quit"
                        /\ cpc' = "while"
                   ELSE \E outcome \in HandlerOutcomes :
                        /\ last' = outcome
                        /\ cpc' = IF outcome # "returns"
                                     /\ OnException(outcome) = "break"
                                  THEN "returned" ELSE "while"
                        /\ UNCHANGED running
           ELSE /\ last' = "unknown"
                /\ cpc' = "while"
                /\ UNCHANGED <<running, handled>>
    /\ parts' = <<>>
    /\ UNCHANGED <<stdin, consumed>>
    /\ UNCHANGED <<pc, fn, args, ret, calls, scratch, proofvars, tools>>

NextCLI == CliRun \/ CliWhile \/ CliInput \/ CliDispatch

SpecCLI == Init /\ [][NextCLI]_vars

\* run is sequential code: once called it goes on until it returns.
SpecCLILive ==
    /\ Init
    /\ [][NextCLI]_vars
    /\ WF_vars(CliWhile)
    /\ WF_vars(CliInput)
    /\ WF_vars(CliDispatch)

(***************************************************************************)
(* PerformanceBenchmark (benchmarks.py): construction and time_function.   *)
(* A duration is a whole number of clock ticks.                            *)
(***************************************************************************)
\* The callables that are timed, by their __name__.
Funcs == {"gcd", "is_prime"}

\* What a timed callable is called with: *args and **kwargs.
BenchInputs ==
    { [args |-> <<PyInt(7)>>, kwargs |-> <<>>],
      [args |-> <<[t |-> "list", v |-> 2]>>, kwargs |-> <<>>],
      [args |-> <<>>, kwargs |-> <<<<"limit", 4>>>>] }

\* end_time - start_time of one execution
Durations == {1, 2}

\* sum(times), min(times), max(times)
RECURSIVE SumTimes(_)
SumTimes(ts) == IF ts = <<>> THEN 0 ELSE Head(ts) + SumTimes(Tail(ts))
MinTimes(ts) == CHOOSE t \in PySet(ts) : \A u \in PySet(ts) : t <= u
MaxTimes(ts) == CHOOSE t \in PySet(ts) : \A u \in PySet(ts) : t >= u

\* statistics.mean(times) as the fraction <<sum, count>>
MeanTimes(ts) == <<SumTimes(ts), Len(ts)>>

\* statistics.stdev(times) by its square times count * (count - 1):
\* count * sum of squares - square of the sum
StdevTimes(ts) ==
    Len(ts) * SumTimes([k \in 1..Len(ts) |-> ts[k] * ts[k]])
        - SumTimes(ts) * SumTimes(ts)

\* _extract_input_size(args, kwargs)
ExtractInputSize(a, kwargs) ==
    IF a # <<>> /\ a[1].t = "int" THEN a[1].v
    ELSE IF a # <<>> /\ a[1].t = "list" THEN a[1].v
    ELSE LET keys == {k \in 1..Len(kwargs) :
                        kwargs[k][1] \in {"n", "limit", "max_value", "size"}}
         IN  IF keys = {} THEN 0
             ELSE kwargs[CHOOSE k \in keys : \A j \in keys : k <= j][2]

\* BenchmarkResult(function_name=func.__name__, ...)
BenchmarkResult(func, a, kwargs, k, ts) ==
    [function_name |-> func,
     input_size |-> ExtractInputSize(a, kwargs),
     execution_time |-> SumTimes(ts),
     iterations |-> k,
     mean_time |-> MeanTimes(ts),
     std_dev |-> IF Len(ts) > 1 THEN StdevTimes(ts) ELSE 0,
     min_time |-> MinTimes(ts),
     max_time |-> MaxTimes(ts)]

\* Variant of AppendResult that keeps the latest result only.
AppendResultOnly(list, benchmark_result) == <<benchmark_result>>

\* self.results.append(benchmark_result)
AppendResult(list, benchmark_result) == Append(list, benchmark_result)

\* time_function(func, *args, iterations=k, **kwargs) is called: times = [].
\* The caller makes at most MaxResults calls that return.
TimeFunction ==
    /\ bpc = "idle"
    /\ Len(results) < MaxResults
    /\ \E func \in Funcs, input \in BenchInputs,
          k \in (0 - 1)..MaxIterations :
            timed' = [func |-> func, args |-> input.args,
                      kwargs |-> input.kwargs, iterations |-> k]
    /\ times' = <<>>
    /\ invoked' = 0
    /\ bpc' = "loop"
    /\ UNCHANGED <<results, log>>
    /\ UNCHANGED <<pc, fn, args, ret, calls, scratch, proofvars, clivars>>
    /\ UNCHANGED <<setvars, handlervars>>

\* One round of "for _ in range(iterations)": func(*args, **kwargs) is
\* executed between two readings of the clock; an exception of func leaves
\* time_function.
TimeIteration ==
    /\ bpc = "loop"
    /\ Len(times) < timed.iterations
    /\ invoked' = invoked + 1
    /\ \/ /\ \E d \in Durations : times' = Append(times, d)
          /\ UNCHANGED bpc
       \/ /\ bpc' = "raised"
          /\ UNCHANGED times
    /\ UNCHANGED <<results, timed, log>>
    /\ UNCHANGED <<pc, fn, args, ret, calls, scratch, proofvars, clivars>>
    /\ UNCHANGED <<setvars, handlervars>>

\* After the loop: the BenchmarkResult is built, statistics.mean raising
\* StatisticsError for an empty times, appended to self.results and
\* returned.
TimeRecord ==
    /\ bpc = "loop"
    /\ Len(times) >= timed.iterations
    /\ IF times = <<>>
       THEN /\ bpc' = "raised"
            /\ UNCHANGED <<results, log>>
       ELSE /\ results' = AppendResult(results,
                            BenchmarkResult(timed.func, timed.args,
                                timed.kwargs, timed.iterations, times))
            /\ log' = Append(log, [func |-> timed.func,
                                   iterations |-> timed.iterations,
                                   invoked |-> invoked])
            /\ bpc' = "returned"
    /\ UNCHANGED <<timed, times, invoked>>
    /\ UNCHANGED <<pc, fn, args, ret, calls, scratch, proofvars, clivars>>
    /\ UNCHANGED <<setvars, handlervars>>

\* The caller of time_function goes on.
TimeFinish ==
    /\ bpc \in {"returned", "raised"}
    /\ bpc' = "idle"
    /\ UNCHANGED <<results, timed, times, invoked, log>>
    /\ UNCHANGED <<pc, fn, args, ret, calls, scratch, proofvars, clivars>>
    /\ UNCHANGED <<setvars, handlervars>>

NextBenchmark == TimeFunction \/ TimeIteration \/ TimeRecord \/ TimeFinish

SpecBenchmark == Init /\ [][NextBenchmark]_vars

(***************************************************************************)
(* core.Set (core.py): construction, union, intersection, difference.      *)
(***************************************************************************)
\* The lists a Set is built from.
SetValues == 1..MaxElement
InputLists == ListsUpTo(SetValues, MaxList)

\* list(set(...)) of a collection: its distinct elements in an order the
\* language does not fix.
ListOfSet(S) ==
    {l \in [1..Cardinality(S) -> S] : \A i, j \in DOMAIN l :
                                          l[i] = l[j] => i = j}

\* Variant of SetInit that keeps the list as it is given.
SetInitAsGiven(list) == {list}

\* Set(elements): the values self.elements can get, list(set(elements)).
SetInit(list) == ListOfSet(PySet(list))

\* self.elements + other.elements
Concat(mine, others) == mine \o others

\* [x for x in self.elements if x in other]
Common(mine, others) == SelectSeq(mine, LAMBDA x : x \in PySet(others))

\* [x for x in self.elements if x not in other]
Without(mine, others) == SelectSeq(mine, LAMBDA x : x \notin PySet(others))

\* A = Set(list), B = Set(list)
NewSets ==
    /\ spc = "none"
    /\ \E listA \in InputLists, listB \in InputLists :
        /\ given' = <<listA, listB>>
        /\ setA' \in SetInit(listA)
        /\ setB' \in SetInit(listB)
    /\ spc' = "built"
    /\ UNCHANGED <<sop, made>>
    /\ UNCHANGED <<pc, fn, args, ret, calls, scratch, proofvars, clivars>>
    /\ UNCHANGED <<benchvars, handlervars>>

\* A.union(other), other being B or a plain list
SetUnion ==
    /\ spc = "built"
    /\ \E other \in {"Set", "list"} :
        /\ sop' = [op |-> "union", other |-> other]
        /\ IF other # "Set"
           THEN made' = [kind |-> "TypeError", elements |-> <<>>]
           ELSE \E elements \in SetInit(Concat(setA, setB)) :
                    made' = [kind |-> "return", elements |-> elements]
    /\ spc' = "done"
    /\ UNCHANGED <<given, setA, setB>>
    /\ UNCHANGED <<pc, fn, args, ret, calls, scratch, proofvars, clivars>>
    /\ UNCHANGED <<benchvars, handlervars>>

\* A.intersection(other)
SetIntersection ==
    /\ spc = "built"
    /\ \E other \in {"Set", "list"} :
        /\ sop' = [op |-> "intersection", other |-> other]
        /\ IF other # "Set"
           THEN made' = [kind |-> "TypeError", elements |-> <<>>]
           ELSE \E elements \in SetInit(Common(setA, setB)) :
                    made' = [kind |-> "return", elements |-> elements]
    /\ spc' = "done"
    /\ UNCHANGED <<given, setA, setB>>
    /\ UNCHANGED <<pc, fn, args, ret, calls, scratch, proofvars, clivars>>
    /\ UNCHANGED <<benchvars, handlervars>>

\* A.difference(other)
SetDifference ==
    /\ spc = "built"
    /\ \E other \in {"Set", "list"} :
        /\ sop' = [op |-> "difference", other |-> other]
        /\ IF other # "Set"
           THEN made' = [kind |-> "TypeError", elements |-> <<>>]
           ELSE \E elements \in SetInit(Without(setA, setB)) :
                    made' = [kind |-> "return", elements |-> elements]
    /\ spc' = "done"
    /\ UNCHANGED <<given, setA, setB>>
    /\ UNCHANGED <<pc, fn, args, ret, calls, scratch, proofvars, clivars>>
    /\ UNCHANGED <<benchvars, handlervars>>

\* The caller drops the outcome; A and B live on.
SetFinish ==
    /\ spc = "done"
    /\ spc' = "built"
    /\ sop' = [op |-> "none", other |-> "none"]
    /\ made' = [kind |-> "none", elements |-> <<>>]
    /\ UNCHANGED <<given, setA, setB>>
    /\ UNCHANGED <<pc, fn, args, ret, calls, scratch, proofvars, clivars>>
    /\ UNCHANGED <<benchvars, handlervars>>

NextSet ==
    NewSets \/ SetUnion \/ SetIntersection \/ SetDifference \/ SetFinish

SpecSet == Init /\ [][NextSet]_vars

(***************************************************************************)
(* The command handlers of EternalMathCLI (cli.py) that take a number: a   *)
(* word of the command line is the sequence of its characters.             *)
(***************************************************************************)
\* The characters of the words typed after a command.
Digits == {"0", "1", "2", "3", "4", "5", "6", "7", "8", "9"}
TokenChars == {"-", "x", "0", "1", "2", "3", "4"}

\* The words of at most MaxToken characters.
Tokens == UNION {[1..k -> TokenChars] : k \in 1..MaxToken}

\* The value of a decimal digit.
DigitValue(c) ==
    CASE c = "0" -> 0 [] c = "1" -> 1 [] c = "2" -> 2 [] c = "3" -> 3
      [] c = "4" -> 4 [] c = "5" -> 5 [] c = "6" -> 6 [] c = "7" -> 7
      [] c = "8" -> 8 [] c = "9" -> 9

\* The number a string of digits writes.
RECURSIVE Decimal(_)
Decimal(digits) ==
    IF digits = <<>> THEN 0
    ELSE 10 * Decimal(SubSeq(digits, 1, Len(digits) - 1))
            + DigitValue(digits[Len(digits)])

\* int(text): surrounding whitespace is dropped, a sign may come first, at
\* least one digit must follow and nothing but digits; otherwise ValueError.
ParseInt(text) ==
    LET bare == Strip(text)
        signed == bare # <<>> /\ bare[1] \in {"-", "+"}
        digits == IF signed THEN Tail(bare) ELSE bare
    IN  IF digits = <<>> \/ \E k \in DOMAIN digits : digits[k] \notin Digits
        THEN Raise("ValueError")
        ELSE Return(IF signed /\ bare[1] = "-" THEN 0 - Decimal(digits)
                    ELSE Decimal(digits))

\* Variant of LessThan that lets the value just below the bound pass.
LessThanLoose(value, bound) == value < bound - 1

\* "if n < bound": the test that guards a core function's domain
LessThan(value, bound) == value < bound

\* The argument lists of a handler: none, or one word.
HandlerArgs == {<<>>} \cup {<<w>> : w \in Tokens}

\* _primes(args): usage without args; n = int(args[0]), a ValueError being
\* reported; "if n < 2" prints a message and returns; otherwise
\* sieve_of_eratosthenes(n) is called and the result printed.
HandlePrimes ==
    /\ hpc = "idle"
    /\ hname' = "_primes"
    /\ \E a \in HandlerArgs :
        /\ hargs' = a
        /\ IF a = <<>>
           THEN reached' = <<>> /\ printed' = "usage"
           ELSE LET parsed == ParseInt(a[1])
                IN  IF parsed.kind # "return"
                    THEN reached' = <<>> /\ printed' = "invalid"
                    ELSE IF LessThan(parsed.val, 2)
                    THEN reached' = <<>> /\ printed' = "range"
                    ELSE /\ reached' = <<<<"sieve_of_eratosthenes", parsed.val>>>>
                         /\ printed' = "result"
    /\ hpc' = "done"
    /\ UNCHANGED <<pc, fn, args, ret, calls, scratch, proofvars, clivars>>
    /\ UNCHANGED <<benchvars, setvars>>

\* _fibonacci(args): usage without args; n = int(args[0]), a ValueError being
\* reported; "if n < 1" prints a message and returns; otherwise
\* fibonacci_sequence(n) is called and the result printed.
HandleFibonacci ==
    /\ hpc = "idle"
    /\ hname' = "_fibonacci"
    /\ \E a \in HandlerArgs :
        /\ hargs' = a
        /\ IF a = <<>>
           THEN reached' = <<>> /\ printed' = "usage"
           ELSE LET parsed == ParseInt(a[1])
                IN  IF parsed.kind # "return"
                    THEN reached' = <<>> /\ printed' = "invalid"
                    ELSE IF LessThan(parsed.val, 1)
                    THEN reached' = <<>> /\ printed' = "range"
                    ELSE /\ reached' = <<<<"fibonacci_sequence", parsed.val>>>>
                         /\ printed' = "result"
    /\ hpc' = "done"
    /\ UNCHANGED <<pc, fn, args, ret, calls, scratch, proofvars, clivars>>
    /\ UNCHANGED <<benchvars, setvars>>

\* _perfect_numbers(args): usage without args; n = int(args[0]), a ValueError being
\* reported; "if n < 1" prints a message and returns; otherwise
\* is_perfect_number(i) is called for i = 1..n and the result printed.
HandlePerfectNumbers ==
    /\ hpc = "idle"
    /\ hname' = "_perfect_numbers"
    /\ \E a \in HandlerArgs :
        /\ hargs' = a
        /\ IF a = <<>>
           THEN reached' = <<>> /\ printed' = "usage"
           ELSE LET parsed == ParseInt(a[1])
                IN  IF parsed.kind # "return"
                    THEN reached' = <<>> /\ printed' = "invalid"
                    ELSE IF LessThan(parsed.val, 1)
                    THEN reached' = <<>> /\ printed' = "range"
                    ELSE /\ reached' = [i \in 1..parsed.val |-> <<"is_perfect_number", i>>]
                         /\ printed' = "result"
    /\ hpc' = "done"
    /\ UNCHANGED <<pc, fn, args, ret, calls, scratch, proofvars, clivars>>
    /\ UNCHANGED <<benchvars, setvars>>

\* _twin_primes(args): usage without args; n = int(args[0]), a ValueError being
\* reported; "if n < 3" prints a message and returns; otherwise
\* twin_primes(n) is called and the result printed.
HandleTwinPrimes ==
    /\ hpc = "idle"
    /\ hname' = "_twin_primes"
    /\ \E a \in HandlerArgs :
        /\ hargs' = a
        /\ IF a = <<>>
           THEN reached' = <<>> /\ printed' = "usage"
           ELSE LET parsed == ParseInt(a[1])
                IN  IF parsed.kind # "return"
                    THEN reached' = <<>> /\ printed' = "invalid"
                    ELSE IF LessThan(parsed.val, 3)
                    THEN reached' = <<>> /\ printed' = "range"
                    ELSE /\ reached' = <<<<"twin_primes", parsed.val>>>>
                         /\ printed' = "result"
    /\ hpc' = "done"
    /\ UNCHANGED <<pc, fn, args, ret, calls, scratch, proofvars, clivars>>
    /\ UNCHANGED <<benchvars, setvars>>

\* _goldbach(args): usage without args; n = int(args[0]), a ValueError being
\* reported; "if n < 4" prints a message and returns; otherwise
\* verify_goldbach_conjecture(n) is called and the result printed.
HandleGoldbach ==
    /\ hpc = "idle"
    /\ hname' = "_goldbach"
    /\ \E a \in HandlerArgs :
        /\ hargs' = a
        /\ IF a = <<>>
           THEN reached' = <<>> /\ printed' = "usage"
           ELSE LET parsed == ParseInt(a[1])
                IN  IF parsed.kind # "return"
                    THEN reached' = <<>> /\ printed' = "invalid"
                    ELSE IF LessThan(parsed.val, 4)
                    THEN reached' = <<>> /\ printed' = "range"
                    ELSE /\ reached' = <<<<"verify_goldbach_conjecture", parsed.val>>>>
                         /\ printed' = "result"
    /\ hpc' = "done"
    /\ UNCHANGED <<pc, fn, args, ret, calls, scratch, proofvars, clivars>>
    /\ UNCHANGED <<benchvars, setvars>>

\* _euler_totient(args): usage without args; n = int(args[0]), a ValueError being
\* reported; "if n < 1" prints a message and returns; otherwise
\* euler_totient(n) is called and the result printed.
HandleEulerTotient ==
    /\ hpc = "idle"
    /\ hname' = "_euler_totient"
    /\ \E a \in HandlerArgs :
        /\ hargs' = a
        /\ IF a = <<>>
           THEN reached' = <<>> /\ printed' = "usage"
           ELSE LET parsed == ParseInt(a[1])
                IN  IF parsed.kind # "return"
                    THEN reached' = <<>> /\ printed' = "invalid"
                    ELSE IF LessThan(parsed.val, 1)
                    THEN reached' = <<>> /\ printed' = "range"
                    ELSE /\ reached' = <<<<"euler_totient", parsed.val>>>>
                         /\ printed' = "result"
    /\ hpc' = "done"
    /\ UNCHANGED <<pc, fn, args, ret, calls, scratch, proofvars, clivars>>
    /\ UNCHANGED <<benchvars, setvars>>

\* _collatz(args): usage without args; n = int(args[0]), a ValueError being
\* reported; "if n < 1" prints a message and returns; otherwise
\* collatz_sequence(n) is called and the result printed.
HandleCollatz ==
    /\ hpc = "idle"
    /\ hname' = "_collatz"
    /\ \E a \in HandlerArgs :
        /\ hargs' = a
        /\ IF a = <<>>
           THEN reached' = <<>> /\ printed' = "usage"
           ELSE LET parsed == ParseInt(a[1])
                IN  IF parsed.kind # "return"
                    THEN reached' = <<>> /\ printed' = "invalid"
                    ELSE IF LessThan(parsed.val, 1)
                    THEN reached' = <<>> /\ printed' = "range"
                    ELSE /\ reached' = <<<<"collatz_sequence", parsed.val>>>>
                         /\ printed' = "result"
    /\ hpc' = "done"
    /\ UNCHANGED <<pc, fn, args, ret, calls, scratch, proofvars, clivars>>
    /\ UNCHANGED <<benchvars, setvars>>

\* The words _plot_collatz is tried with: lists of numbers with and
\* without a comma at the end, zero, a negative number, a word that is no
\* number.
PlotWords ==
    { <<"3", ",", "7", ",", "1", ",">>,
      <<"3">>,
      <<"0", ",">>,
      <<"-", "1", ",", "7">>,
      <<"x">> }

\* ' '.join(args)
RECURSIVE Join(_)
Join(words) ==
    IF words = <<>> THEN <<>>
    ELSE IF Len(words) = 1 THEN words[1]
    ELSE words[1] \o <<" ">> \o Join(Tail(words))

\* text.split(','): the pieces between the commas, field being the piece
\* that is being read.
RECURSIVE SplitComma(_, _)
SplitComma(text, field) ==
    IF text = <<>> THEN <<field>>
    ELSE IF Head(text) = "," THEN <<field>> \o SplitComma(Tail(text), <<>>)
    ELSE SplitComma(Tail(text), Append(field, Head(text)))

\* numbers[:6]
FirstSix(numbers) == SubSeq(numbers, 1, Min(6, Len(numbers)))

\* collatz_sequence(x) for x >= 1, as the loop builds it
RECURSIVE CollatzFrom(_)
CollatzFrom(x) ==
    IF x = 1 THEN <<1>> ELSE <<x>> \o CollatzFrom(CollatzNext(x))

\* for num in numbers: if num > 0: sequences.append(collatz_sequence(num))
RECURSIVE CollatzSequences(_)
CollatzSequences(numbers) ==
    IF numbers = <<>> THEN <<>>
    ELSE IF Head(numbers) > 0
    THEN <<CollatzFrom(Head(numbers))>> \o CollatzSequences(Tail(numbers))
    ELSE CollatzSequences(Tail(numbers))

\* _plot_collatz(args): usage without args; the numbers between the commas
\* of ' '.join(args) are parsed, a ValueError being reported; at most six
\* are kept; the Collatz sequences of the positive ones are collected and,
\* unless there is none, handed with numbers to plot_collatz_trajectory.
HandlePlotCollatz ==
    /\ hpc = "idle"
    /\ hname' = "_plot_collatz"
    /\ \E a \in ListsUpTo(PlotWords, MaxWords) :
        /\ hargs' = a
        /\ IF a = <<>>
           THEN reached' = <<>> /\ printed' = "usage"
           ELSE LET fields == SplitComma(Join(a), <<>>)
                    parsed == [k \in DOMAIN fields |->
                                  ParseInt(Strip(fields[k]))]
                IN  IF \E k \in DOMAIN parsed : parsed[k].kind # "return"
                    THEN reached' = <<>> /\ printed' = "invalid"
                    ELSE LET numbers == FirstSix([k \in DOMAIN parsed |->
                                                     parsed[k].val])
                             sequences == CollatzSequences(numbers)
                         IN  IF sequences = <<>>
                             THEN /\ reached' = <<>>
                                  /\ printed' = "none"
                             ELSE /\ reached' =
                                       <<<<"plot_collatz_trajectory",
                                           sequences, numbers>>>>
                                  /\ \E success \in BOOLEAN :
                                       printed' = IF success THEN "plotted"
                                                  ELSE "failed"
    /\ hpc' = "done"
    /\ UNCHANGED <<pc, fn, args, ret, calls, scratch, proofvars, clivars>>
    /\ UNCHANGED <<benchvars, setvars>>

\* The handler returns to the loop of run.
HandlerReturn ==
    /\ hpc = "done"
    /\ hpc' = "idle"
    /\ hname' = "none"
    /\ hargs' = <<>>
    /\ reached' = <<>>
    /\ printed' = "none"
    /\ UNCHANGED <<pc, fn, args, ret, calls, scratch, proofvars, clivars>>
    /\ UNCHANGED <<benchvars, setvars>>

NextHandlers ==
    \/ HandlePrimes
    \/ HandleFibonacci
    \/ HandlePerfectNumbers
    \/ HandleTwinPrimes
    \/ HandleGoldbach
    \/ HandleEulerTotient
    \/ HandleCollatz
    \/ HandlePlotCollatz
    \/ HandlerReturn

SpecHandlers == Init /\ [][NextHandlers]_vars

(***************************************************************************)
(* Reference notions the properties are stated with.                       *)
(***************************************************************************)
Elems(s) == {s[k] : k \in DOMAIN s}

StrictlyAscending(s) == \A k \in 1..(Len(s) - 1) : s[k] < s[k + 1]

NonDecreasing(s) == \A k \in 1..(Len(s) - 1) : s[k] <= s[k + 1]

\* d divides x
Divides(d, x) == IF d = 0 THEN x = 0 ELSE x % (IF d < 0 THEN 0 - d ELSE d) = 0

\* p is a prime number: p >= 2 and no d with 2 <= d < p divides p.
PrimeNumber(p) == p >= 2 /\ \A d \in 2..(p - 1) : ~Divides(d, p)

\* a and b have no common divisor above 1; a, b >= 1
Coprime(a, b) ==
    \A d \in 2..(IF a <= b THEN a ELSE b) : ~(Divides(d, a) /\ Divides(d, b))

\* x is a Python integer (a bool is one)
Integer(x) == x.t \in {"int", "bool"}

\* the product of the elements of a sequence
RECURSIVE Product(_)
Product(s) == IF s = <<>> THEN 1 ELSE Head(s) * Product(Tail(s))

\* the sum of the elements of a finite set of integers
RECURSIVE SumOf(_)
SumOf(S) ==
    IF S = {} THEN 0 ELSE LET m == CHOOSE m \in S : TRUE IN m + SumOf(S \ {m})

\* the sum of the divisors d of x with 1 <= d < x
ProperDivisorSum(x) == SumOf({d \in 1..(x - 1) : Divides(d, x)})

\* x is a perfect number
PerfectNumber(x) == x > 1 /\ ProperDivisorSum(x) = x

Returned(f) == pc = "done" /\ fn = f

(***************************************************************************)
(* Properties of the sieves.                                               *)
(***************************************************************************)
\* C1: sieve_of_eratosthenes(limit) returns a strictly ascending list holding
\* exactly the primes p with 2 <= p <= limit; it is empty for limit < 2 and
\* [2] for limit = 2.
C1_SieveExactlyThePrimes ==
    Returned("sieve_of_eratosthenes") =>
        LET limit == args[1].v
        IN  /\ ret.kind = "return"
            /\ StrictlyAscending(ret.val)
            /\ Elems(ret.val) = {p \in 2..limit : PrimeNumber(p)}
            /\ (limit < 2 => ret.val = <<>>)
            /\ (limit = 2 => ret.val = <<2>>)

\* The sieve has returned the ten primes up to 30.
C1_Witness ==
    /\ Returned("sieve_of_eratosthenes")
    /\ args[1].v = 30
    /\ ret.val = <<2, 3, 5, 7, 11, 13, 17, 19, 23, 29>>

\* C2: _segmented_sieve(limit), called directly for limit >= 0, returns the
\* sequence the standard boolean-array sieve returns for that limit, with no
\* element emitted twice.
C2_SegmentedEqualsStandard ==
    Returned("_segmented_sieve") =>
        LET limit == args[1].v
        IN  /\ ret.kind = "return"
            /\ ret.val = (IF limit < 2 THEN <<>> ELSE StandardSieve(limit))
            /\ Cardinality(Elems(ret.val)) = Len(ret.val)

\* The segmented sieve has returned from a limit that needs two windows, and
\* the last prime it returned lies in the second window.
C2_Witness ==
    /\ Returned("_segmented_sieve")
    /\ args[1].v > IntSqrt(args[1].v) + MinSegmentSize
    /\ Len(ret.val) > 0
    /\ ret.val[1] = 2
    /\ ret.val[Len(ret.val)] > IntSqrt(args[1].v) + MinSegmentSize

(***************************************************************************)
(* Properties of the arithmetic primitives.                                *)
(***************************************************************************)
\* C3: for integers a, b not both zero, gcd(a, b) = gcd(b, a), it is >= 0,
\* it divides a and b, every common divisor of a and b divides it, and
\* gcd(a, 0) = gcd(0, a) = |a|.
C3_GcdIsGreatestCommonDivisor ==
    (/\ Returned("gcd")
     /\ Integer(args[1]) /\ Integer(args[2])
     /\ ~(args[1].v = 0 /\ args[2].v = 0)) =>
        LET a == args[1].v
            b == args[2].v
            g == ret.val
            absa == IF a < 0 THEN 0 - a ELSE a
            absb == IF b < 0 THEN 0 - b ELSE b
        IN  /\ ret.kind = "return"
            /\ Gcd(args[2], args[1]) = Return(g)
            /\ g >= 0
            /\ Divides(g, a) /\ Divides(g, b)
            /\ \A d \in 1..(absa + absb) :
                 (Divides(d, a) /\ Divides(d, b)) => Divides(d, g)
            /\ (b = 0 => g = absa)
            /\ (a = 0 => g = absb)

\* gcd has returned 2 for a negative and a positive argument.
C3_Witness ==
    /\ Returned("gcd")
    /\ args = <<PyInt(0 - 4), PyInt(6)>>
    /\ ret = Return(2)

\* C4: gcd raises TypeError whenever an argument is not an integer (also
\* when the other one is 0), raises ValueError exactly when both arguments
\* are the integer 0, and returns a value for every other pair.
C4_GcdErrors ==
    Returned("gcd") =>
        LET bothInt == Integer(args[1]) /\ Integer(args[2])
            bothZero == bothInt /\ args[1].v = 0 /\ args[2].v = 0
        IN  /\ (ret.kind = "TypeError") <=> ~bothInt
            /\ (ret.kind = "ValueError") <=> bothZero
            /\ (ret.kind = "return") <=> (bothInt /\ ~bothZero)

\* gcd(0.0, 0) has raised TypeError.
C4_Witness ==
    /\ Returned("gcd")
    /\ args = <<[t |-> "float", v |-> 0], PyInt(0)>>
    /\ ret.kind = "TypeError"

\* C5: lcm(a, b) returns 0 when a or b is 0, lcm(0, 0) included, without
\* calling gcd and without raising; otherwise it returns |a*b| / gcd(a, b),
\* the least positive common multiple; a non-integer argument raises
\* TypeError.
C5_Lcm ==
    Returned("lcm") =>
        IF ~(Integer(args[1]) /\ Integer(args[2]))
        THEN ret.kind = "TypeError"
        ELSE LET a == args[1].v
                 b == args[2].v
                 ab == IF a * b < 0 THEN 0 - (a * b) ELSE a * b
             IN  IF a = 0 \/ b = 0
                 THEN ret = Return(0) /\ calls = <<>>
                 ELSE /\ ret.kind = "return"
                      /\ ret.val * Gcd(args[1], args[2]).val = ab
                      /\ ret.val > 0
                      /\ Divides(a, ret.val) /\ Divides(b, ret.val)
                      /\ \A m \in 1..(ret.val - 1) :
                            ~(Divides(a, m) /\ Divides(b, m))

\* lcm(0, 0) has returned 0.
C5_Witness ==
    /\ Returned("lcm")
    /\ args = <<PyInt(0), PyInt(0)>>
    /\ ret = Return(0)

\* C6: for an integer n, is_prime(n) is true exactly when n >= 2 and no d
\* with 2 <= d < n divides n; it is false for every n < 2.
C6_IsPrimeExact ==
    (Returned("is_prime") /\ Integer(args[1])) =>
        /\ ret.kind = "return"
        /\ ret.val <=> PrimeNumber(args[1].v)
        /\ (args[1].v < 2 => ret.val = FALSE)

\* is_prime(49) has returned False: the divisor is the square root itself.
C6_Witness ==
    /\ Returned("is_prime")
    /\ args = <<PyInt(49)>>
    /\ ret = Return(FALSE)

\* C7: for an integer n >= 2, prime_factorization(n) returns a non-empty
\* non-decreasing list of primes whose product is n; for an integer n < 2 it
\* raises ValueError.
C7_PrimeFactorization ==
    (Returned("prime_factorization") /\ Integer(args[1])) =>
        IF args[1].v >= 2
        THEN /\ ret.kind = "return"
             /\ Len(ret.val) > 0
             /\ NonDecreasing(ret.val)
             /\ \A k \in 1..Len(ret.val) : PrimeNumber(ret.val[k])
             /\ Product(ret.val) = args[1].v
        ELSE ret.kind = "ValueError"

\* prime_factorization(60) has returned [2, 2, 3, 5].
C7_Witness ==
    /\ Returned("prime_factorization")
    /\ args = <<PyInt(60)>>
    /\ ret = Return(<<2, 2, 3, 5>>)

(***************************************************************************)
(* Properties of the number-theory algorithms.                             *)
(***************************************************************************)
\* C8: is_perfect_number(n) is true exactly when n > 1 and the proper
\* divisors of n sum to n, so it is false for n <= 1; scanning 1..limit
\* yields exactly the perfect numbers in ascending order: [6, 28] up to 30,
\* none up to 5.
C8_PerfectExact ==
    /\ Returned("is_perfect_number") =>
        /\ ret.val <=> PerfectNumber(args[1].v)
        /\ (args[1].v <= 1 => ret.val = FALSE)
    /\ Returned("find_perfect_numbers") =>
        LET limit == args[1].v
        IN  /\ StrictlyAscending(ret.val)
            /\ Elems(ret.val) = {m \in 1..limit : PerfectNumber(m)}
            /\ (limit = 30 => ret.val = <<6, 28>>)
            /\ (limit = 5 => ret.val = <<>>)

\* is_perfect_number(496) has returned True.
C8_Witness ==
    /\ Returned("is_perfect_number")
    /\ args = <<PyInt(496)>>
    /\ ret = Return(TRUE)

\* C9: for n >= 1, euler_totient(n) is the number of k in 1..n coprime to n;
\* euler_totient(1) = 1, euler_totient(p) = p - 1 for a prime p, and
\* euler_totient(12) = 4.
C9_TotientCountsCoprimes ==
    (Returned("euler_totient") /\ args[1].v >= 1) =>
        LET x == args[1].v
        IN  /\ ret.kind = "return"
            /\ ret.val = Cardinality({k \in 1..x : Coprime(k, x)})
            /\ (x = 1 => ret.val = 1)
            /\ (PrimeNumber(x) => ret.val = x - 1)
            /\ (x = 12 => ret.val = 4)

\* euler_totient(12) has returned 4.
C9_Witness ==
    /\ Returned("euler_totient")
    /\ args = <<PyInt(12)>>
    /\ ret = Return(4)

\* C10: for n >= 1, a returned collatz_sequence(n) starts with n, ends with
\* 1, holds 1 nowhere else, and each later element is x/2 for an even
\* predecessor x and 3x+1 for an odd one; for n <= 0 it is empty;
\* collatz_sequence(1) = [1] and collatz_sequence(7) has 17 elements.
C10_CollatzSequence ==
    Returned("collatz_sequence") =>
        LET x == args[1].v
            seq == ret.val
        IN  /\ ret.kind = "return"
            /\ IF x <= 0 THEN seq = <<>>
               ELSE /\ Len(seq) >= 1
                    /\ seq[1] = x
                    /\ seq[Len(seq)] = 1
                    /\ \A k \in 1..(Len(seq) - 1) :
                        /\ seq[k] # 1
                        /\ seq[k + 1] = (IF seq[k] % 2 = 0 THEN seq[k] \div 2
                                         ELSE 3 * seq[k] + 1)
            /\ (x = 1 => seq = <<1>>)
            /\ (x = 7 => Len(seq) = 17)

\* collatz_sequence(7) has returned its 17 elements.
C10_Witness ==
    /\ Returned("collatz_sequence")
    /\ args = <<PyInt(7)>>
    /\ Len(ret.val) = 17
    /\ ret.val[17] = 1


\* C11: twin_primes(limit) returns exactly the pairs (p, p + 2) with p and
\* p + 2 prime and p + 2 <= limit, by strictly ascending p, none repeated; a
\* prime whose partner exceeds limit yields no pair; twin_primes(10) is
\* [(3, 5), (5, 7)].
C11_TwinPrimesExact ==
    Returned("twin_primes") =>
        LET limit == args[1].v
            pairs == ret.val
        IN  /\ ret.kind = "return"
            /\ Elems(pairs) =
                 {<<p, p + 2>> : p \in {q \in 2..(limit - 2) :
                                          PrimeNumber(q) /\ PrimeNumber(q + 2)}}
            /\ \A k \in 1..(Len(pairs) - 1) : pairs[k][1] < pairs[k + 1][1]
            /\ \A k \in 1..Len(pairs) : pairs[k][2] <= limit
            /\ (limit = 10 => pairs = <<(<<3, 5>>), (<<5, 7>>)>>)

\* twin_primes(12) has returned without a pair for the prime 11, whose
\* partner 13 lies above the limit.
C11_Witness ==
    /\ Returned("twin_primes")
    /\ args = <<PyInt(12)>>
    /\ ret = Return(<<(<<3, 5>>), (<<5, 7>>)>>)

\* C12: verify_goldbach_conjecture(limit) returns a value, never an error,
\* and the value is true exactly when every even n with 4 <= n <= limit is
\* the sum of two primes.
C12_GoldbachExact ==
    Returned("verify_goldbach_conjecture") =>
        /\ ret.kind = "return"
        /\ ret.val <=>
             \A m \in 4..args[1].v :
                 m % 2 = 0 =>
                     \E p \in 2..m : PrimeNumber(p) /\ PrimeNumber(m - p)

\* x is congruent to r modulo m
Congruent(x, r, m) == Divides(m, x - r)

\* a and b, of any sign, have no common divisor above 1; 0 and 0 have
\* every common divisor
CoprimeModuli(a, b) ==
    /\ a # 0 \/ b # 0
    /\ \A d \in 2..Max(Abs(a), Abs(b)) : ~(Divides(d, a) /\ Divides(d, b))

\* C13: when chinese_remainder_theorem passes its two checks and returns x,
\* x is congruent to remainders[i] modulo moduli[i] for every i and
\* 0 <= x < product(moduli).
C13_CrtSolves ==
    (Returned("chinese_remainder_theorem") /\ ret.kind = "return") =>
        LET remainders == args[1]
            moduli == args[2]
            x == ret.val
        IN  /\ \A i \in 1..Len(moduli) : Congruent(x, remainders[i], moduli[i])
            /\ 0 <= x
            /\ x < Product(moduli)

\* The positions of two moduli that are not coprime.
NonCoprimePairs(moduli) ==
    {ij \in (0..(Len(moduli) - 1)) \X (0..(Len(moduli) - 1)) :
        /\ ij[1] < ij[2]
        /\ ~CoprimeModuli(At(moduli, ij[1]), At(moduli, ij[2]))}

\* The pair of moduli a recorded gcd call was made on.
CalledOn(call) == <<call[2].v, call[3].v>>

\* C14: chinese_remainder_theorem raises ValueError and computes no result
\* when the lengths differ or when two moduli at distinct positions have a
\* gcd other than 1; the length check comes first (no gcd is taken on a
\* mismatch), and the pairs (i, j) with i < j are checked one after the other
\* until one fails: either all are checked, or the last one checked is the
\* first that is not coprime.
C14_CrtRejects ==
    Returned("chinese_remainder_theorem") =>
        LET remainders == args[1]
            moduli == args[2]
            len == Len(moduli)
            all == [k \in 1..((len * (len - 1)) \div 2) |->
                      CHOOSE ij \in (0..(len - 1)) \X (0..(len - 1)) :
                          /\ ij[1] < ij[2]
                          /\ k = Cardinality(
                                 {pq \in (0..(len - 1)) \X (0..(len - 1)) :
                                     /\ pq[1] < pq[2]
                                     /\ \/ pq[1] < ij[1]
                                        \/ pq[1] = ij[1] /\ pq[2] <= ij[2]})]
            bad == NonCoprimePairs(moduli)
        IN  /\ Len(remainders) # len =>
                ret = Raise("ValueError") /\ calls = <<>>
            /\ (Len(remainders) = len /\ bad # {}) =>
                /\ ret = Raise("ValueError")
                /\ Len(calls) >= 1
                /\ all[Len(calls)] \in bad
                /\ \A k \in 1..(Len(calls) - 1) : all[k] \notin bad
            /\ (Len(remainders) = len /\ bad = {}) =>
                Len(calls) = Len(all)
            /\ \A k \in 1..Len(calls) :
                CalledOn(calls[k]) =
                    <<At(moduli, all[k][1]), At(moduli, all[k][2])>>

\* The moduli [2, 3, 4] with three remainders have been rejected at the pair
\* (0, 2), the second one checked: the pair of neighbours (0, 1) is coprime.
C14_Witness ==
    /\ Returned("chinese_remainder_theorem")
    /\ args[2] = <<2, 3, 4>>
    /\ Len(args[1]) = 3
    /\ ret = Raise("ValueError")
    /\ Len(calls) = 2

(***************************************************************************)
(* Properties of the proof objects.                                        *)
(***************************************************************************)
\* Every premise of every step is an axiom or the conclusion of a strictly
\* earlier step.
PremisesResolved(axs, sts) ==
    \A k \in 1..Len(sts) : \A j \in 1..Len(sts[k].premises) :
        \/ sts[k].premises[j] \in Elems(axs)
        \/ \E i \in 1..(k - 1) : sts[k].premises[j] = sts[i].conclusion

C18_ProvenLifecycle ==
    /\ [](proven =>
            /\ attached
            /\ axioms = FtaAxioms
            /\ removed = 0 => steps = FtaSteps)
    /\ [][proven => proven']_vars
    /\ [][proven => Len(axioms') <= Len(axioms) /\ Len(steps') <= Len(steps)]_vars

\* The factory has set proven and returned the theorem.
C18_Witness ==
    /\ stage = "returned"
    /\ proven
    /\ attached
    /\ Len(steps) = 9

(***************************************************************************)
(* Properties of the command-line session.                                 *)
(***************************************************************************)
\* The first word of a typed line in lower case, "" for a line without one.
RECURSIVE FirstWord(_)
FirstWord(text) ==
    IF text = <<>> THEN ""
    ELSE IF Head(text) \in {" ", "\t"} THEN FirstWord(Tail(text))
    ELSE CASE Head(text) \in {"quit", "QUIT"} -> "quit"
           [] Head(text) \in {"exit", "Exit"} -> "exit"
           [] Head(text) \in {"help", "Help"} -> "help"
           [] OTHER -> Head(text)

\* The event is a line whose command is quit or exit.
QuitLine(event) ==
    event.kind = "line" /\ FirstWord(event.text) \in {"quit", "exit"}

\* The event is a line with a command that has a handler.
CommandLine(event) ==
    event.kind = "line" /\ FirstWord(event.text) \in DOMAIN commands

\* C19: running is true after construction; quit and exit set it false, and
\* run then returns without another input(): a quit or exit line is the last
\* thing read and its handler the last one called; every session whose
\* input holds a quit or exit line comes to its end.
C19_QuitEndsRun ==
    /\ [](cpc = "constructed" => running)
    /\ [](\A k \in 1..Len(consumed) :
            QuitLine(consumed[k]) =>
                /\ k = Len(consumed)
                /\ cpc = "dispatch" \/ ~running)
    /\ [](\A k \in 1..Len(handled) :
            handled[k] \in {"quit", "exit"} => k = Len(handled))
    /\ [][~running => consumed' = consumed /\ handled' = handled]_vars
    /\ (cpc = "while" /\ \E k \in 1..Len(stdin) : QuitLine(stdin[k]))
          ~> (cpc = "returned")

\* run has returned after a quit or exit line, leaving typed input unread.
C19_Witness ==
    /\ cpc = "returned"
    /\ last = "quit"
    /\ ~running
    /\ stdin # <<>>
    /\ Len(consumed) >= 2

\* C20: run returns only after quit or exit, a KeyboardInterrupt or an
\* EOFError; after an empty or blank line, an unknown command or another
\* exception of a handler, running is still true and the loop goes on; a
\* line has at most one handler called, an empty line or unknown command
\* none.
C20_LoopGoesOn ==
    /\ cpc = "returned" => last \in {"quit", "KeyboardInterrupt", "EOFError"}
    /\ last \in {"empty", "unknown", "Exception", "returns"} =>
          running /\ cpc \in {"while", "input", "dispatch"}
    /\ (last \in {"empty", "unknown", "Exception"} /\ cpc = "while") =>
          ENABLED (CliWhile /\ cpc' = "input")
    /\ Len(handled) + (IF cpc = "dispatch" /\ parts[1] \in DOMAIN commands
                       THEN 1 ELSE 0)
          = Cardinality({k \in 1..Len(consumed) : CommandLine(consumed[k])})

\* After an empty line, an unknown command and a handler that raised, the
\* loop is at its next input().
C20_Witness ==
    /\ cpc = "input"
    /\ last = "Exception"
    /\ running
    /\ Len(consumed) = 3
    /\ consumed[1] = Typed(<<>>)
    /\ consumed[2] = Typed(<<"bogus", " ", "quit">>)
    /\ handled = <<"help">>

\* The primes the inner loop has looked at in its present round: those it
\* passed without a pair and, when the round was left, the one it left at.
Examined == {order[k] : k \in 1..Min(pos + 1, Len(order))}

\* C23: the value verify_goldbach_conjecture(limit) returns is the same for
\* every order in which the set of primes is visited: it is the value of the
\* search that looks at every prime p <= n/2 before it gives up on n, so that
\* False is returned only when every such prime has been examined.
C23_GoldbachOrderFree ==
    (Returned("verify_goldbach_conjecture") /\ ret = Return(FALSE)) =>
        /\ \A p \in gb_primes : p <= n \div 2 => p \in Examined
        /\ \A p \in gb_primes : p <= n \div 2 => (n - p) \notin gb_primes

\* C24: for n > 1, is_perfect_number(n) returns what plain summation of the
\* proper divisors gives: when the Mersenne shortcut returns True the proper
\* divisors do sum to n, when the early return fires the full sum differs
\* from n, and a loop that reaches the end of its range has counted every
\* proper divisor exactly once.
C24_ShortcutsAgree ==
    (Returned("is_perfect_number") /\ args[1].v > 1) =>
        LET x == args[1].v
            run == DivisorSumRun(x, 2, IntSqrt(x) + 1, 1)
            full == ProperDivisorSum(x)
        IN  /\ ret.val <=> (full = x)
            /\ MersenneShortcut(x) => (full = x /\ ret.val)
            /\ (~MersenneShortcut(x) /\ run.early) => (full # x /\ ~ret.val)
            /\ ~run.early => run.divisor_sum = full

\* is_perfect_number(12) has returned False by its early return: 1 + 2 + 6 +
\* 3 + 4 exceeds 12 before the end of the range.
C24_Witness ==
    /\ Returned("is_perfect_number")
    /\ args = <<PyInt(12)>>
    /\ ret = Return(FALSE)
    /\ ~MersenneShortcut(12)
    /\ DivisorSumRun(12, 2, IntSqrt(12) + 1, 1).early

\* the product of the elements of a finite set of integers
RECURSIVE ProductOf(_)
ProductOf(S) ==
    IF S = {} THEN 1
    ELSE LET m == CHOOSE m \in S : TRUE IN m * ProductOf(S \ {m})

\* the primes that divide x
PrimeDivisors(x) == {p \in 2..x : PrimeNumber(p) /\ Divides(p, x)}

\* C25: for n >= 2 and every order in which euler_totient visits the
\* distinct prime factors of n, result * (p - 1) is exactly divisible by the
\* prime p visited next, whichever it is, so that no floor division
\* discards a remainder and the value returned is the same for every order:
\* n times the product of (p - 1) over the product of p.
C25_TotientExactDivision ==
    /\ pc = "totient_loop" =>
        LET x == args[1].v
            visited == PrimeDivisors(x) \ factors
        IN  /\ factors \subseteq PrimeDivisors(x)
            /\ \A p \in factors :
                /\ PyMod(result * (p - 1), p) = 0
                /\ TotientUpdate(result, p) * p = result * (p - 1)
            /\ result * ProductOf(visited)
                 = x * ProductOf({p - 1 : p \in visited})
    /\ (Returned("euler_totient") /\ args[1].v >= 2) =>
        LET x == args[1].v
        IN  ret.val * ProductOf(PrimeDivisors(x))
              = x * ProductOf({p - 1 : p \in PrimeDivisors(x)})

\* euler_totient(30) has visited 5 and then 2 and has 3 still to visit.
C25_Witness ==
    /\ pc = "totient_loop"
    /\ args = <<PyInt(30)>>
    /\ factors = {3}
    /\ result = 12

\* C26: for every start n >= 1 in the checked range the loop of
\* collatz_sequence(n) terminates: the iterate comes to 1 and the function
\* returns its list.
C26_CollatzTerminates ==
    (pc = "collatz_loop")
        ~> (IF Returned("collatz_sequence") /\ n = 1
            THEN ret.val = sequence ELSE FALSE)

\* collatz_sequence(27) has returned its 112 elements, 9232 among them.
C26_Witness ==
    /\ Returned("collatz_sequence")
    /\ args = <<PyInt(27)>>
    /\ Len(ret.val) = 112
    /\ \E k \in 1..Len(ret.val) : ret.val[k] = 9232

\* C28: for all lists of integer remainders and moduli, zero, one and
\* negative moduli and empty lists included, chinese_remainder_theorem
\* either returns an integer or fails with ValueError; no other failure
\* leaves it.
C28_CrtValueErrorOnly ==
    Returned("chinese_remainder_theorem") =>
        \/ ret.kind = "return" /\ ret.val \in Int
        \/ ret.kind = "ValueError"

(***************************************************************************)
(* Properties of the benchmark object.                                     *)
(***************************************************************************)
\* C21: results is empty after construction; each call of
\* time_function(func, ..., iterations=k) that returns, with k >= 1, has
\* called func exactly k times and appended exactly one BenchmarkResult, with
\* func's name and iterations = k, at the end of results; after m such calls
\* results has m entries in call order, and no step changes or removes an
\* entry that is already there.
C21_ResultsGrowByOne ==
    /\ [](log = <<>> => results = <<>>)
    /\ [](/\ Len(results) = Len(log)
          /\ \A i \in 1..Len(log) :
                /\ log[i].iterations >= 1
                /\ log[i].invoked = log[i].iterations
                /\ results[i].function_name = log[i].func
                /\ results[i].iterations = log[i].iterations)
    /\ [][/\ Len(results') \in {Len(results), Len(results) + 1}
          /\ SubSeq(results', 1, Len(results)) = results
          /\ (bpc' = "returned" /\ bpc # "returned")
                => Len(results') = Len(results) + 1]_vars

\* Two calls have returned: gcd timed twice, then is_prime timed once.
C21_Witness ==
    /\ bpc = "returned"
    /\ Len(results) = 2
    /\ results[1].function_name = "gcd"
    /\ results[1].iterations = 2
    /\ results[2].function_name = "is_prime"
    /\ results[2].iterations = 1
    /\ invoked = 1

(***************************************************************************)
(* Properties of core.Set.                                                 *)
(***************************************************************************)
\* no element is at two positions of the list
NoRepeats(list) ==
    \A i, j \in DOMAIN list : list[i] = list[j] => i = j

\* C27: a Set built from a list holds the distinct elements of the list,
\* each once; A.union(B), A.intersection(B) and A.difference(B) return a new
\* Set whose elements are exactly the union, intersection and difference of
\* the two element sets, none twice; a non-Set argument raises TypeError;
\* no method call changes the elements of A or B.
C27_SetOperations ==
    /\ [](spc # "none" =>
            /\ NoRepeats(setA) /\ PySet(setA) = PySet(given[1])
            /\ NoRepeats(setB) /\ PySet(setB) = PySet(given[2]))
    /\ [](spc = "done" =>
            IF sop.other = "Set"
            THEN /\ made.kind = "return"
                 /\ NoRepeats(made.elements)
                 /\ PySet(made.elements) =
                      CASE sop.op = "union" -> PySet(setA) \cup PySet(setB)
                        [] sop.op = "intersection" ->
                             PySet(setA) \cap PySet(setB)
                        [] sop.op = "difference" -> PySet(setA) \ PySet(setB)
            ELSE made.kind = "TypeError")
    /\ [][spc = "built" => setA' = setA /\ setB' = setB]_vars

\* Set([1, 1]).union(Set([2, 1])) has returned a Set of 1 and 2.
C27_Witness ==
    /\ spc = "done"
    /\ given = <<(<<1, 1>>), (<<2, 1>>)>>
    /\ setA = <<1>>
    /\ sop = [op |-> "union", other |-> "Set"]
    /\ made.kind = "return"
    /\ Len(made.elements) = 2

(***************************************************************************)
(* Properties of the command handlers.                                     *)
(***************************************************************************)
\* The least argument a core function is to be called with.
CoreFloor(f) ==
    CASE f = "sieve_of_eratosthenes" -> 2
      [] f = "twin_primes" -> 3
      [] f = "verify_goldbach_conjecture" -> 4
      [] OTHER -> 1

\* The core function a handler serves its command with.
Serves(h) ==
    CASE h = "_primes" -> "sieve_of_eratosthenes"
      [] h = "_fibonacci" -> "fibonacci_sequence"
      [] h = "_perfect_numbers" -> "is_perfect_number"
      [] h = "_twin_primes" -> "twin_primes"
      [] h = "_goldbach" -> "verify_goldbach_conjecture"
      [] h = "_euler_totient" -> "euler_totient"
      [] h = "_collatz" -> "collatz_sequence"

\* The handlers of primes, fibonacci, perfect, twins, goldbach, euler and
\* collatz.
NumberHandlers ==
    {"_primes", "_fibonacci", "_perfect_numbers", "_twin_primes",
     "_goldbach", "_euler_totient", "_collatz"}

\* C29: a handler calls a core function only with an argument of its
\* domain: primes from 2, twins from 3, goldbach from 4, euler, collatz,
\* perfect and fibonacci from 1; for a smaller parsed n it prints a message
\* and calls no core function, and for an n of the domain it calls its own
\* core function, first with that n (perfect: with 1..n); no handler step
\* changes the state of the CLI.
C29_HandlersInDomain ==
    /\ [](hname \in NumberHandlers =>
            /\ \A k \in DOMAIN reached :
                /\ reached[k][1] = Serves(hname)
                /\ reached[k][2] >= CoreFloor(reached[k][1])
            /\ (hargs # <<>> /\ ParseInt(hargs[1]).kind = "return") =>
                LET parsed == ParseInt(hargs[1]).val
                IN  IF parsed < CoreFloor(Serves(hname))
                    THEN reached = <<>> /\ printed = "range"
                    ELSE /\ printed = "result"
                         /\ reached # <<>>
                         /\ reached[Len(reached)][2] = parsed)
    /\ [][clivars' = clivars]_vars

\* euler 0 has printed its message without a call of euler_totient.
C29_Witness ==
    /\ hpc = "done"
    /\ hname = "_euler_totient"
    /\ hargs = <<(<<"0">>)>>
    /\ reached = <<>>
    /\ printed = "range"

\* C30: the list of Collatz sequences and the list of starting values that
\* plotcollatz hands to plot_collatz_trajectory have the same length, at
\* most 6, and the sequence at index i starts with the starting value at
\* index i.
C30_PlotListsAligned ==
    (hname = "_plot_collatz" /\ reached # <<>>) =>
        LET sequences == reached[1][2]
            numbers == reached[1][3]
        IN  /\ reached[1][1] = "plot_collatz_trajectory"
            /\ Len(sequences) = Len(numbers)
            /\ Len(numbers) <= 6
            /\ \A i \in DOMAIN sequences : sequences[i][1] = numbers[i]

(***************************************************************************)
(* Properties of fibonacci_sequence.                                       *)
(***************************************************************************)
\* C22: fibonacci_sequence(count) has exactly count elements for count >= 0
\* and none for count <= 0; its element at index i is fibonacci(i), so it
\* starts 0, 1 and each later element is the sum of the two before it;
\* fibonacci_sequence(5) = [0, 1, 1, 2, 3].
C22_FibonacciSequence ==
    Returned("fibonacci_sequence") =>
        LET count == args[1].v
            list == ret.val
        IN  /\ ret.kind = "return"
            /\ Len(list) = Max(count, 0)
            /\ \A i \in 0..(Len(list) - 1) : At(list, i) = Fibonacci(i)
            /\ Len(list) >= 1 => At(list, 0) = 0
            /\ Len(list) >= 2 => At(list, 1) = 1
            /\ \A i \in 2..(Len(list) - 1) :
                At(list, i) = At(list, i - 1) + At(list, i - 2)
            /\ (count = 5 => list = <<0, 1, 1, 2, 3>>)

\* fibonacci_sequence(5) has returned [0, 1, 1, 2, 3].
C22_Witness ==
    /\ Returned("fibonacci_sequence")
    /\ args = <<PyInt(5)>>
    /\ ret = Return(<<0, 1, 1, 2, 3>>)

====
